---- MODULE Spec2Model ----
(***************************************************************************)
(* Resilient execution core of the ETL package: slicing of a dataset into  *)
(* work units (etl/parallel.py, etl/batch_optimizer.py), parallel dispatch *)
(* with per-unit failure isolation, retry with backoff (etl/retry.py), the *)
(* checkpoint store (etl/checkpoint.py) and the pipeline runs              *)
(* (etl/orchestrator.py, etl/pipeline.py).                                 *)
(*                                                                         *)
(* The specifications share the variables; each one drives one component   *)
(* and leaves the variables of the others at their initial values:         *)
(*   SpecSplit     the slicing loops                                       *)
(*   SpecDispatch  process_parallel / process_tasks                        *)
(*   SpecChunks    ParallelProcessor.process_chunks                        *)
(*   SpecRetry     RetryManager.execute_with_retry / retry_operation       *)
(*   SpecCkpt      CheckpointManager, with concurrent writers and crashes  *)
(*   SpecStore     CheckpointManager, listing, retention and resume        *)
(*   SpecStep      RecoverableStep                                         *)
(*   SpecSizer     AdaptiveBatchProcessor._adjust_batch_size               *)
(*   SpecProcess   the sequential processing loops and their callbacks     *)
(*   SpecRun       ETLOrchestrator.execute / ETLPipeline.run               *)
(***************************************************************************)
EXTENDS Integers, Sequences, FiniteSets, TLC

VARIABLES
    \* ---- slicing loops
    sq_cfg,         \* constructor arguments of the processors
    sq_op,          \* operation whose loop is running, "none" before a call
    sq_n,           \* split_dataframe: the chunk count in effect
    sq_len,         \* len(df) of the call
    sq_step,        \* chunk_size / batch_size used as the range() step
    sq_start,       \* loop variable: next value of range(0, len(df), step)
    sq_slices,      \* slices handed out so far, <<start, end>> = rows start..end-1
    sq_pc,          \* "idle", "loop", "done", "raised"
    \* ---- dispatcher
    d_cfg,          \* constructor arguments: n_workers, batch_size
    d_op,           \* "process_parallel" or "process_tasks", "none" before a call
    d_units,        \* submitted units in submission order (unit i at position i+1)
    d_state,        \* per unit: "queued", "running", "returned", "raised"
    d_results,      \* the list `results`: <<index, value>> in completion order
    d_collected,    \* indices already yielded by as_completed
    d_log,          \* log records emitted by the call
    d_pc,           \* "idle", "collecting", "returned"
    d_ret,          \* the list the call returned
    \* ---- retry
    r_kind,         \* "manager" (execute_with_retry), "decorator" (retry_operation)
    r_cfg,          \* RetryConfig
    r_stats,        \* RetryManager.retry_stats
    r_script,       \* behaviour of the wrapped function: outcome of its n-th call
    r_calls,        \* number of invocations of the wrapped function in this call
    r_attempt,      \* loop variable `attempt`
    r_delay,        \* current_delay
    r_sleeps,       \* waits performed in this call, in order
    r_pc,           \* "idle", "running", "returned", "raised"
    r_out,          \* value returned / exception raised by the call
    r_before,       \* retry_stats when the call started
    r_ops,          \* number of calls made so far
    \* ---- checkpoint store
    c_meta,         \* <id>_meta.json files: id -> file content
    c_data,         \* <id>_data.pkl files: id -> file content
    c_clock,        \* the value datetime.now() returns
    c_pc,           \* per writer: position inside create_checkpoint
    c_args,         \* per writer: arguments of its create_checkpoint call
    c_call,         \* per writer: number of its create_checkpoint call, 0 if none
    c_id,           \* per writer: checkpoint_id it generated
    c_live,         \* creates that returned and whose id was not deleted since
    c_loaded,       \* outcome of the last load_checkpoint call
    c_current,      \* CheckpointManager.current_checkpoint
    c_creates,      \* number of create_checkpoint calls started
    c_op,           \* the last cleanup / resume call: what it found and did
    \* ---- adaptive batch sizer
    a_pc,           \* "none" before AdaptiveBatchProcessor(...), then "constructed"
    a_cfg,          \* the constructor arguments
    a_batch_size,   \* self.batch_size
    a_times,        \* len(self.batch_times)
    a_last,         \* self.batch_times[-1]: the duration of the last call
    a_prev,         \* batch_size before the last _adjust_batch_size call
    a_run,          \* the durations the run observes: mixed, fast or slow
    \* ---- sequential processing with progress reports
    p_op,           \* "process" (adaptive), "process_in_batches", "none" before a call
    p_pc,           \* "idle", "loop", "unit" (func is running), "done", "raised"
    p_cb,           \* whether a progress_callback was passed
    p_len,          \* len(df) of the call
    p_step,         \* process_in_batches: the processor's batch_size
    p_start,        \* start_idx / start
    p_slices,       \* slices handed to func so far, <<start, end>>
    p_sizes,        \* the batch size each of them was cut with
    p_progress,     \* the progress_callback invocations, <<first, second>>
    p_times0,       \* len(self.batch_times) when the call started
    \* ---- recoverable step (RecoverableStep wrapper)
    w_pc,           \* "idle", "func" (the step runs), "create", "returned", "raised"
    w_call,         \* the wrapper call: step_name, kwargs' pipeline_name, what func does
    w_out,          \* what the wrapper call returned or raised
    w_meta_before,  \* the *_meta.json files when the call started
    w_data_before,  \* the *_data.pkl files when the call started
    w_creates0,     \* create_checkpoint calls started before the call
    w_calls,        \* number of wrapper calls made
    \* ---- pipeline runs (ETLOrchestrator.execute, ETLPipeline.run)
    e_pc,           \* "idle", "extract", "stages", "loaded", "except", "done"
    e_kind,         \* "orchestrator" or "pipeline": whose run it is
    e_args,         \* the arguments of the run
    e_chain,        \* ETLOrchestrator.processor_chain, one entry per processing unit
    e_stages,       \* the processing units of this run, in order
    e_pos,          \* index of the next processing unit
    e_ran,          \* the stages this run executed, each with its outcome
    e_rows,         \* len(df)
    e_initial,      \* initial_rows
    e_exc,          \* str(e) of the exception in flight
    e_start,        \* start_time
    e_clock,        \* time.time()
    e_out,          \* what the run gave its caller
    e_history,      \* ETLPipeline.execution_history
    e_calls,        \* runs started
    e_returns       \* runs that returned a result

splitVars == <<sq_cfg, sq_op, sq_n, sq_len, sq_step, sq_start, sq_slices, sq_pc>>
dispatchVars == <<d_cfg, d_op, d_units, d_state, d_results, d_collected,
                  d_log, d_pc, d_ret>>
retryVars == <<r_kind, r_cfg, r_stats, r_script, r_calls, r_attempt, r_delay,
               r_sleeps, r_pc, r_out, r_before, r_ops>>
ckptVars == <<c_meta, c_data, c_clock, c_pc, c_args, c_call, c_id, c_live,
              c_loaded, c_current, c_creates, c_op>>
sizerVars == <<a_pc, a_cfg, a_batch_size, a_times, a_last, a_prev, a_run>>
procVars == <<p_op, p_pc, p_cb, p_len, p_step, p_start, p_slices, p_sizes,
               p_progress, p_times0>>
stepVars == <<w_pc, w_call, w_out, w_meta_before, w_data_before, w_creates0,
               w_calls>>
runVars == <<e_pc, e_kind, e_args, e_chain, e_stages, e_pos, e_ran, e_rows,
              e_initial, e_exc, e_start, e_clock, e_out, e_history, e_calls,
              e_returns>>
vars == <<splitVars, dispatchVars, retryVars, ckptVars, sizerVars, procVars,
          stepVars, runVars>>
notSplit == <<dispatchVars, retryVars, ckptVars, sizerVars, procVars,
               stepVars, runVars>>
notDispatch == <<splitVars, retryVars, ckptVars, sizerVars, procVars,
                  stepVars, runVars>>
notRetry == <<splitVars, dispatchVars, ckptVars, sizerVars, procVars,
               stepVars, runVars>>
notCkpt == <<splitVars, dispatchVars, retryVars, sizerVars, procVars,
              stepVars, runVars>>
notSizer == <<splitVars, dispatchVars, retryVars, ckptVars, procVars,
               stepVars, runVars>>
notProc == <<splitVars, dispatchVars, retryVars, ckptVars, sizerVars,
              stepVars, runVars>>
notStep == <<splitVars, dispatchVars, retryVars, ckptVars, sizerVars,
              procVars, runVars>>
notRun == <<splitVars, dispatchVars, retryVars, ckptVars, sizerVars,
             procVars, stepVars>>

-----------------------------------------------------------------------------
(* Bounds of the model. *)

MaxLen == 5          \* small dataset lengths 0..MaxLen
MaxStep == 4         \* batch sizes / chunk counts / worker counts 1..MaxStep
MaxUnits == 4        \* units one dispatcher call submits, at most
MaxAttempts == 3     \* RetryConfig.max_attempts ranges over 1..MaxAttempts
MaxOps == 2          \* retried calls made on one RetryManager
MaxClock == 1        \* datetime.now() ranges over 0..MaxClock
MaxCreates == 2      \* create_checkpoint calls made
MaxKeep == 2         \* keep_last ranges over 0..MaxKeep
MaxSteps == 2        \* remaining_steps has at most MaxSteps steps
MaxSize == 6         \* small batch sizes and limits 0..MaxSize
MaxCalls == 14       \* _adjust_batch_size calls made on one sizer

None == <<"None">>    \* Python's None

Min(a, b) == IF a < b THEN a ELSE b
Max(a, b) == IF a > b THEN a ELSE b

-----------------------------------------------------------------------------
(* Slicing.  A slice <<s, e>> stands for df.iloc[s:e], rows s..e-1.        *)

\* Lengths the calls are made with: the small ones and two that are large
\* enough for process_chunked (minimum batch size 100) to cut several chunks
\* and for the 10,000-row scenario.
Lengths == (0..MaxLen) \cup {250, 10000}

\* df.iloc[start:start+step] / min(start + step, len(df)): a slice never
\* reaches past the end of the frame.
SliceEndPastEnd(start, step, len) == start + step
SliceEnd(start, step, len) == Min(start + step, len)

\* n_chunks = n_chunks or self.n_workers.  The argument 0 stands for both
\* falsy values, None and 0.
ChunkCount(n_chunks, n_workers) == IF n_chunks = 0 THEN n_workers ELSE n_chunks

\* chunk_size = len(df) // n_chunks + 1
ChunkSize(len, n) == len \div n + 1

\* ceil(len / n), the chunk length the documentation gives
CeilDiv(len, n) == (len + n - 1) \div n

\* _estimate_batch_size.  memory_usage(deep=True).sum() of the sample is the
\* index plus the rows; a zero sample gives a division by zero in numpy
\* (inf, or nan for 0/0, and int(nan) raises ValueError).
SampleRows == 1000
MinBatchRows == 100
MemoryUsage(rows, row_bytes, index_bytes) == index_bytes + rows * row_bytes
EstimateBatchSize(len, row_bytes, index_bytes, max_memory_mb) ==
    LET sample_size == Min(SampleRows, len)
        usage == MemoryUsage(sample_size, row_bytes, index_bytes)
        max_memory_bytes == max_memory_mb * 1024 * 1024
        \* int(max_memory_bytes / (usage / sample_size) * 0.8)
        raw == IF sample_size = 0 THEN 0
               ELSE (max_memory_bytes * sample_size * 4) \div (usage * 5)
    IN  IF sample_size = 0 /\ usage = 0
        THEN [raised |-> TRUE, size |-> 0]
        ELSE [raised |-> FALSE, size |-> Max(MinBatchRows, Min(raw, len))]

\* Constructor arguments: ParallelProcessor(n_workers), BatchProcessor(batch_size),
\* ParallelBatchProcessor(batch_size), MemoryEfficientBatchProcessor(max_memory_mb)
SplitConfigs ==
    [n_workers : 1..MaxStep, batch_size : 1..MaxStep, max_memory_mb : {0, 1}]

StartLoop(op, len, step, n) ==
    /\ sq_pc = "idle"
    /\ sq_op' = op
    /\ sq_len' = len
    /\ sq_step' = step
    /\ sq_n' = n
    /\ sq_start' = 0
    /\ sq_slices' = <<>>
    /\ sq_pc' = "loop"
    /\ UNCHANGED <<sq_cfg, notSplit>>

\* ParallelProcessor.split_dataframe(df, n_chunks)
CallSplitDataframe ==
    \E len \in Lengths, n_chunks \in 0..MaxStep :
        LET n == ChunkCount(n_chunks, sq_cfg.n_workers)
        IN  StartLoop("split_dataframe", len, ChunkSize(len, n), n)

\* BatchProcessor.process_in_batches(df, func)
CallProcessInBatches ==
    \E len \in (0..MaxLen) \cup {250} :
        StartLoop("process_in_batches", len, sq_cfg.batch_size, 0)

\* ParallelBatchProcessor.process_parallel: the loop that builds `batches`
CallBuildBatches ==
    \E len \in (0..MaxLen) \cup {250} :
        StartLoop("process_parallel", len, sq_cfg.batch_size, 0)

\* MemoryEfficientBatchProcessor.process_chunked(df, func)
CallProcessChunked ==
    \E len \in (0..MaxLen) \cup {250}, row_bytes \in {8, 8192},
       index_bytes \in {0, 132} :
        LET est == EstimateBatchSize(len, row_bytes, index_bytes,
                                     sq_cfg.max_memory_mb)
        IN  IF est.raised
            THEN /\ sq_pc = "idle"
                 /\ sq_op' = "process_chunked"
                 /\ sq_pc' = "raised"
                 /\ sq_len' = len
                 /\ UNCHANGED <<sq_cfg, sq_n, sq_step, sq_start, sq_slices, notSplit>>
            ELSE StartLoop("process_chunked", len, est.size, 0)

\* one iteration of `for start in range(0, len(df), step)`
LoopStep ==
    /\ sq_pc = "loop"
    /\ sq_start < sq_len
    /\ sq_slices' = Append(sq_slices,
                           <<sq_start, SliceEnd(sq_start, sq_step, sq_len)>>)
    /\ sq_start' = sq_start + sq_step
    /\ UNCHANGED <<sq_cfg, sq_op, sq_n, sq_len, sq_step, sq_pc, notSplit>>

\* range() is exhausted: the operation returns
LoopDone ==
    /\ sq_pc = "loop"
    /\ sq_start >= sq_len
    /\ sq_pc' = "done"
    /\ UNCHANGED <<sq_cfg, sq_op, sq_n, sq_len, sq_step, sq_start, sq_slices,
                   notSplit>>

SplitNext ==
    \/ CallSplitDataframe
    \/ CallProcessInBatches
    \/ CallBuildBatches
    \/ CallProcessChunked
    \/ LoopStep
    \/ LoopDone

-----------------------------------------------------------------------------
(* Dispatch: ParallelBatchProcessor.process_parallel and                   *)
(* AsyncProcessor.process_tasks.  Unit i of the call sits at position      *)
(* i + 1 of d_units and d_state.  A unit function that fails raises an     *)
(* Exception, which is what `except Exception` names.                      *)

RECURSIVE BuildSlices(_, _, _)
\* the list `batches`: df.iloc[start:end] for start in range(0, len(df), step)
BuildSlices(start, step, len) ==
    IF start >= len THEN <<>>
    ELSE <<<<start, SliceEnd(start, step, len)>>>>
         \o BuildSlices(start + step, step, len)

\* what func(batch) / task() returns for a unit
Result(unit) == <<"result", unit>>

RECURSIVE SortByIndex(_)
\* results.sort(key=lambda x: x[0]): a stable sort on the unit index
InsertByIndex(sorted, r) ==
    LET k == Cardinality({j \in 1..Len(sorted) : sorted[j][1] <= r[1]})
    IN  SubSeq(sorted, 1, k) \o <<r>> \o SubSeq(sorted, k + 1, Len(sorted))
SortUnsorted(results) == results
SortByIndex(results) ==
    IF results = <<>> THEN <<>>
    ELSE InsertByIndex(SortByIndex(SubSeq(results, 1, Len(results) - 1)),
                       results[Len(results)])

\* return [r[1] for r in results]
Values(results) == [k \in 1..Len(results) |-> results[k][2]]

\* try: results.append((idx, future.result()))
OnSuccess(results, idx, unit) == Append(results, <<idx, Result(unit)>>)
\* except Exception: logger.error(...); results.append((idx, None))
OnFailureDropped(results, idx) == results
OnFailure(results, idx) == Append(results, <<idx, None>>)
LogFailure(log, idx) == Append(log, [level |-> "error", unit |-> idx])

Finished(k) == d_state[k] \in {"returned", "raised"}
Running == {k \in 1..Len(d_units) : d_state[k] = "running"}
Queued == {k \in 1..Len(d_units) : d_state[k] = "queued"}

\* executor.submit(...) for every unit, inside the `with` block
Submit(op, units) ==
    /\ d_pc = "idle"
    /\ d_op' = op
    /\ d_units' = units
    /\ d_state' = [k \in 1..Len(units) |-> "queued"]
    /\ d_results' = <<>>
    /\ d_collected' = {}
    /\ d_log' = Append(d_log, [level |-> "info", unit |-> -1])
    /\ d_pc' = "collecting"
    /\ UNCHANGED <<d_cfg, d_ret, notDispatch>>

\* ParallelBatchProcessor.process_parallel(df, func)
CallProcessParallel ==
    \E len \in 0..MaxLen :
        /\ CeilDiv(len, d_cfg.batch_size) <= MaxUnits
        /\ Submit("process_parallel", BuildSlices(0, d_cfg.batch_size, len))

\* AsyncProcessor.process_tasks(tasks)
CallProcessTasks ==
    \E n \in 0..MaxUnits :
        Submit("process_tasks", [k \in 1..n |-> <<"task", k - 1>>])

\* a pool worker takes the oldest queued unit (the work queue is FIFO);
\* at most n_workers units run at a time
WorkerStart ==
    /\ d_pc = "collecting"
    /\ Queued # {}
    /\ Cardinality(Running) < d_cfg.n_workers
    /\ LET k == CHOOSE q \in Queued : \A o \in Queued : q <= o
       IN  d_state' = [d_state EXCEPT ![k] = "running"]
    /\ UNCHANGED <<d_cfg, d_op, d_units, d_results, d_collected, d_log, d_pc,
                   d_ret, notDispatch>>

\* the unit function returns
WorkerReturn ==
    \E k \in Running :
        /\ d_state' = [d_state EXCEPT ![k] = "returned"]
        /\ UNCHANGED <<d_cfg, d_op, d_units, d_results, d_collected, d_log,
                       d_pc, d_ret, notDispatch>>

\* the unit function raises
WorkerRaise ==
    \E k \in Running :
        /\ d_state' = [d_state EXCEPT ![k] = "raised"]
        /\ UNCHANGED <<d_cfg, d_op, d_units, d_results, d_collected, d_log,
                       d_pc, d_ret, notDispatch>>

\* one iteration of `for future in as_completed(...)`: a finished future
\* that was not yielded yet
Collect ==
    \E k \in 1..Len(d_units) :
        /\ d_pc = "collecting"
        /\ Finished(k)
        /\ k \notin d_collected
        /\ d_collected' = d_collected \cup {k}
        /\ IF d_state[k] = "returned"
           THEN /\ d_results' = OnSuccess(d_results, k - 1, d_units[k])
                /\ UNCHANGED d_log
           ELSE /\ d_log' = LogFailure(d_log, k - 1)
                /\ d_results' = OnFailure(d_results, k - 1)
        /\ UNCHANGED <<d_cfg, d_op, d_units, d_state, d_pc, d_ret, notDispatch>>

\* as_completed is exhausted once every future was yielded; the `with`
\* block ends, results are sorted and returned
ReturnResults ==
    /\ d_pc = "collecting"
    /\ d_collected = 1..Len(d_units)
    /\ d_ret' = Values(SortByIndex(d_results))
    /\ d_pc' = "returned"
    /\ UNCHANGED <<d_cfg, d_op, d_units, d_state, d_results, d_collected,
                   d_log, notDispatch>>

DispatchNext ==
    \/ CallProcessParallel
    \/ CallProcessTasks
    \/ WorkerStart
    \/ WorkerReturn
    \/ WorkerRaise
    \/ Collect
    \/ ReturnResults

\* ParallelProcessor.process_chunks(df, func, n_chunks): split_dataframe, then
\* executor.map submits every chunk (the same code for the thread pool and
\* the process pool).  The frame has rows: with none there is no chunk and
\* pd.concat of the empty list raises before anything is dispatched.
CallProcessChunks ==
    \E len \in 1..MaxLen, n_chunks \in 0..MaxStep :
        LET n == ChunkCount(n_chunks, d_cfg.n_workers)
        IN  /\ CeilDiv(len, ChunkSize(len, n)) <= MaxUnits
            /\ Submit("process_chunks", BuildSlices(0, ChunkSize(len, n), len))

\* the cancel() calls of executor.map's result iterator when it is closed:
\* a future that has not started is cancelled, the others are left alone
CancelPending(state) ==
    [k \in DOMAIN state |->
        IF state[k] = "queued" THEN "cancelled" ELSE state[k]]

\* list(executor.map(...)) takes the results in submission order: the next
\* future has returned
MapYield ==
    /\ d_op = "process_chunks"
    /\ d_pc = "collecting"
    /\ Len(d_results) < Len(d_units)
    /\ LET k == Len(d_results) + 1
       IN  /\ d_state[k] = "returned"
           /\ d_results' = OnSuccess(d_results, k - 1, d_units[k])
           /\ d_collected' = d_collected \cup {k}
    /\ UNCHANGED <<d_cfg, d_op, d_units, d_state, d_log, d_pc, d_ret,
                   notDispatch>>

\* the next future has raised: result() re-raises in the caller, the
\* iterator is closed and cancels what has not started, and the exception
\* leaves the `with` block, whose exit waits for the running units
MapRaise ==
    /\ d_op = "process_chunks"
    /\ d_pc = "collecting"
    /\ Len(d_results) < Len(d_units)
    /\ LET k == Len(d_results) + 1
       IN  /\ d_state[k] = "raised"
           /\ d_ret' = <<<<"exception", k - 1>>>>
    /\ d_state' = CancelPending(d_state)
    /\ d_pc' = "unwinding"
    /\ UNCHANGED <<d_cfg, d_op, d_units, d_results, d_collected, d_log,
                   notDispatch>>

\* executor.shutdown(wait=True) is over: the exception leaves process_chunks
Propagate ==
    /\ d_pc = "unwinding"
    /\ Running = {}
    /\ d_pc' = "raised"
    /\ UNCHANGED <<d_cfg, d_op, d_units, d_state, d_results, d_collected,
                   d_log, d_ret, notDispatch>>

\* every result was taken: pd.concat(results, ignore_index=True), the log
\* line and the return
ReturnConcat ==
    /\ d_op = "process_chunks"
    /\ d_pc = "collecting"
    /\ Len(d_units) >= 1
    /\ Len(d_results) = Len(d_units)
    /\ d_ret' = Values(d_results)
    /\ d_log' = Append(d_log, [level |-> "info", unit |-> -1])
    /\ d_pc' = "returned"
    /\ UNCHANGED <<d_cfg, d_op, d_units, d_state, d_results, d_collected,
                   notDispatch>>

ChunksNext ==
    \/ CallProcessChunks
    \/ WorkerStart
    \/ WorkerReturn
    \/ WorkerRaise
    \/ MapYield
    \/ MapRaise
    \/ Propagate
    \/ ReturnConcat

-----------------------------------------------------------------------------
(* Retry: RetryManager.execute_with_retry and the wrapper retry_operation  *)
(* builds.  Delays are counted in eighths of a second, so that the         *)
(* products with the backoff factors 1/2, 1 and 2 are exact, as they are   *)
(* in floating point.  max_attempts >= 1: the loop body runs at least once *)
(* and every call ends inside the loop.                                    *)

Delays == {8, 64}
MaxDelays == {16, 64}
Factors == {<<1, 2>>, <<1, 1>>, <<2, 1>>}
ExceptionClasses == {"IOError", "ValueError"}

RetryConfigs ==
    [max_attempts : 1..MaxAttempts,
     delay : Delays,
     backoff_factor : Factors,
     max_delay : MaxDelays,
     exceptions : {{"Exception"}, {"IOError"}}]

ZeroStats ==
    [total_operations |-> 0, successful_first_try |-> 0,
     successful_with_retry |-> 0, failed |-> 0]

\* `except config.exceptions as e` catches instances of the listed classes
\* and of their subclasses
RetryableAlways(cfg, cls) == TRUE
Retryable(cfg, cls) == "Exception" \in cfg.exceptions \/ cls \in cfg.exceptions

\* the wrapped function: its n-th invocation returns a value or raises
Outcomes == {"ok"} \cup ExceptionClasses
Scripts(cfg) == [1..cfg.max_attempts -> Outcomes]
ReturnValue(n) == <<"value", n>>
Exc(cls, n) == <<"exception", cls, n>>

\* if attempt == config.max_attempts
IsLastAttemptOffByOne(attempt, cfg) == attempt >= cfg.max_attempts - 1
IsLastAttempt(attempt, cfg) == attempt = cfg.max_attempts

\* current_delay = min(current_delay * backoff_factor, max_delay)
NextDelay(delay, cfg) ==
    Min((delay * cfg.backoff_factor[1]) \div cfg.backoff_factor[2],
        cfg.max_delay)

\* the counters a successful attempt increments
StatsAfterSuccessFirstTryOnly(stats, attempt) ==
    [stats EXCEPT !.successful_first_try = @ + 1]
StatsAfterSuccess(stats, attempt) ==
    IF attempt = 1
    THEN [stats EXCEPT !.successful_first_try = @ + 1]
    ELSE [stats EXCEPT !.successful_with_retry = @ + 1]

\* the counter the failure of the last attempt increments
StatsAfterExhausted(stats) == [stats EXCEPT !.failed = @ + 1]

StartCall(kind, script) ==
    /\ r_pc \in {"idle", "returned", "raised"}
    /\ r_ops < MaxOps
    /\ r_ops' = r_ops + 1
    /\ r_kind' = kind
    /\ r_script' = script
    /\ r_calls' = 0
    /\ r_attempt' = 1
    /\ r_delay' = r_cfg.delay
    /\ r_sleeps' = <<>>
    /\ r_out' = None
    /\ r_before' = r_stats
    /\ r_pc' = "running"
    /\ UNCHANGED <<r_cfg, notRetry>>

\* RetryManager.execute_with_retry(func): the statements before the loop
CallExecuteWithRetry ==
    \E script \in Scripts(r_cfg) :
        /\ StartCall("manager", script)
        /\ r_stats' = [r_stats EXCEPT !.total_operations = @ + 1]

\* a call of the wrapper retry_operation(config)(func) returns
CallWrapper ==
    \E script \in Scripts(r_cfg) :
        /\ StartCall("decorator", script)
        /\ UNCHANGED r_stats

\* a loop iteration in which func returns
AttemptSucceeds ==
    /\ r_pc = "running"
    /\ r_script[r_calls + 1] = "ok"
    /\ r_calls' = r_calls + 1
    /\ r_stats' = IF r_kind = "manager"
                  THEN StatsAfterSuccess(r_stats, r_attempt) ELSE r_stats
    /\ r_out' = ReturnValue(r_calls + 1)
    /\ r_pc' = "returned"
    /\ UNCHANGED <<r_kind, r_cfg, r_script, r_attempt, r_delay, r_sleeps,
                   r_before, r_ops, notRetry>>

\* a loop iteration in which func raises a listed exception before the last
\* attempt: sleep, back off, next attempt
AttemptFailsRetry ==
    /\ r_pc = "running"
    /\ r_script[r_calls + 1] # "ok"
    /\ Retryable(r_cfg, r_script[r_calls + 1])
    /\ ~IsLastAttempt(r_attempt, r_cfg)
    /\ r_calls' = r_calls + 1
    /\ r_sleeps' = Append(r_sleeps, r_delay)
    /\ r_delay' = NextDelay(r_delay, r_cfg)
    /\ r_attempt' = r_attempt + 1
    /\ UNCHANGED <<r_kind, r_cfg, r_stats, r_script, r_pc, r_out, r_before,
                   r_ops, notRetry>>

\* a loop iteration in which func raises a listed exception on the last
\* attempt: the bare `raise` re-raises that exception
AttemptFailsLast ==
    /\ r_pc = "running"
    /\ r_script[r_calls + 1] # "ok"
    /\ Retryable(r_cfg, r_script[r_calls + 1])
    /\ IsLastAttempt(r_attempt, r_cfg)
    /\ r_calls' = r_calls + 1
    /\ r_stats' = IF r_kind = "manager"
                  THEN StatsAfterExhausted(r_stats) ELSE r_stats
    /\ r_out' = Exc(r_script[r_calls + 1], r_calls + 1)
    /\ r_pc' = "raised"
    /\ UNCHANGED <<r_kind, r_cfg, r_script, r_attempt, r_delay, r_sleeps,
                   r_before, r_ops, notRetry>>

\* a loop iteration in which func raises an exception the except clause
\* does not list: it leaves the call as it is
AttemptFailsUnlisted ==
    /\ r_pc = "running"
    /\ r_script[r_calls + 1] # "ok"
    /\ ~Retryable(r_cfg, r_script[r_calls + 1])
    /\ r_calls' = r_calls + 1
    /\ r_out' = Exc(r_script[r_calls + 1], r_calls + 1)
    /\ r_pc' = "raised"
    /\ UNCHANGED <<r_kind, r_cfg, r_stats, r_script, r_attempt, r_delay,
                   r_sleeps, r_before, r_ops, notRetry>>

\* RetryManager.reset_stats(), between two calls; the locals of the call
\* before are gone
ResetStats ==
    /\ r_pc \in {"returned", "raised"}
    /\ r_stats' = ZeroStats
    /\ r_before' = ZeroStats
    /\ r_pc' = "idle"
    /\ r_kind' = "none"
    /\ r_script' = <<>>
    /\ r_calls' = 0
    /\ r_attempt' = 0
    /\ r_delay' = 0
    /\ r_sleeps' = <<>>
    /\ r_out' = None
    /\ UNCHANGED <<r_cfg, r_ops, notRetry>>

RetryNext ==
    \/ CallExecuteWithRetry
    \/ CallWrapper
    \/ AttemptSucceeds
    \/ AttemptFailsRetry
    \/ AttemptFailsLast
    \/ AttemptFailsUnlisted
    \/ ResetStats

-----------------------------------------------------------------------------
(* Checkpoint store: CheckpointManager.  The checkpoint directory is the   *)
(* pair of maps c_meta (the *_meta.json files) and c_data (the *_data.pkl  *)
(* files); a file exists when its id is in the map's domain.  A Python     *)
(* value is a record [type, items]; a dict is a sequence of <<key, value>> *)
(* pairs.  Two processes may run create_checkpoint at once, and a process  *)
(* may die between two statements.                                         *)

Writers == {1, 2}
Pipelines == {"p1", "p2"}
NoPipeline == "None"        \* list_checkpoints(pipeline_name=None)

PyStr(x) == [type |-> "str", items |-> <<x>>]
PyTuple(xs) == [type |-> "tuple", items |-> xs]
PyList(xs) == [type |-> "list", items |-> xs]

\* metadata or {}
MetaOrEmpty(arg) == IF arg.none THEN <<>> ELSE arg.items

\* json.dump followed by json.load: a tuple is written as an array and
\* comes back as a list; strings and lists come back as they were
JsonValue(v) == IF v.type = "tuple" THEN PyList(v.items) ELSE v
JsonDict(items) ==
    [k \in 1..Len(items) |-> <<items[k][1], JsonValue(items[k][2])>>]
JsonDump(rec) ==
    [format |-> "json",
     checkpoint_id |-> rec.checkpoint_id,
     pipeline_name |-> rec.pipeline_name,
     step |-> rec.step,
     timestamp |-> rec.timestamp,
     metadata |-> JsonDict(rec.metadata)]
JsonLoad(file) ==
    [checkpoint_id |-> file.checkpoint_id,
     pipeline_name |-> file.pipeline_name,
     step |-> file.step,
     timestamp |-> file.timestamp,
     metadata |-> file.metadata]

\* pickle.dump followed by pickle.load gives back an equal value
PickleDump(v) == [format |-> "pickle", value |-> v]
PickleLoad(file) == file.value

\* _generate_checkpoint_id: the first 16 hex digits of the md5 of
\* "<pipeline_name>_<timestamp>".  Equal inputs give equal ids; distinct
\* inputs are taken to give distinct ids.
Md5Prefix(pipeline_name, timestamp) == <<pipeline_name, timestamp>>
GenerateCheckpointId(pipeline_name, now) == Md5Prefix(pipeline_name, now)

NoId == <<"", -1>>
\* an id that no create_checkpoint call returns
MissingId == <<"p0", 0>>

EmptyDir == [x \in {} |-> 0]

\* open(path, 'w') and the dump: the file is created or replaced
WriteFile(dir, id, content) ==
    [x \in DOMAIN dir \cup {id} |-> IF x = id THEN content ELSE dir[x]]
\* path.unlink() if path.exists()
RemoveFile(dir, id) == [x \in DOMAIN dir \ {id} |-> dir[x]]

\* the record create_checkpoint builds (checkpoint_data)
CheckpointData(id, args, now) ==
    [checkpoint_id |-> id,
     pipeline_name |-> args.pipeline_name,
     step |-> args.step,
     timestamp |-> now,
     metadata |-> MetaOrEmpty(args.metadata)]

\* the create_checkpoint calls made: two steps of pipeline p1, the first
\* without metadata, and one step of pipeline p2
CreateCall(pipeline_name, step, data, metadata) ==
    [pipeline_name |-> pipeline_name, step |-> step, data |-> data,
     metadata |-> metadata]
NoMetadata == [none |-> TRUE, items |-> <<>>]
SourceMetadata ==
    [none |-> FALSE,
     items |-> <<<<"source", PyStr("csv")>>,
                 <<"shape", PyTuple(<<"10", "3">>)>>>>]
CreateArgs ==
    {CreateCall("p1", "extract", PyStr("rows"), NoMetadata),
     CreateCall("p1", "load", PyTuple(<<"rows", "errors">>), SourceMetadata),
     CreateCall("p2", "load", PyTuple(<<"rows", "errors">>), SourceMetadata)}
NoArgs == CreateCall("", "", PyStr(""), NoMetadata)

\* load_checkpoint(checkpoint_id): what the call returns or raises
NoResult == [raised |-> "none", metadata |-> <<>>, data |-> <<>>]
NoLoad ==
    [called |-> FALSE, id |-> NoId, meta_present |-> FALSE,
     data_present |-> FALSE, live |-> {}, out |-> NoResult]
\* no list / latest / cleanup / resume call was the last operation
NoOp ==
    [op |-> "none", pipeline_name |-> "", keep_last |-> 0,
     meta_before |-> EmptyDir, data_before |-> EmptyDir,
     steps |-> <<>>, ran |-> <<>>, listed |-> <<>>, out |-> NoResult]
LoadCheckpointMetaOnly(id) ==
    IF id \notin DOMAIN c_meta
    THEN [raised |-> "FileNotFoundError", metadata |-> <<>>, data |-> <<>>]
    ELSE [raised |-> "no",
          metadata |-> JsonLoad(c_meta[id]),
          data |-> IF id \in DOMAIN c_data
                   THEN PickleLoad(c_data[id]) ELSE PyStr("")]
LoadCheckpoint(id) ==
    IF id \notin DOMAIN c_meta \/ id \notin DOMAIN c_data
    THEN [raised |-> "FileNotFoundError", metadata |-> <<>>, data |-> <<>>]
    ELSE [raised |-> "no",
          metadata |-> JsonLoad(c_meta[id]),
          data |-> PickleLoad(c_data[id])]

\* list_checkpoints(pipeline_name): the checkpoints whose metadata file the
\* glob finds and the filter keeps
ListedIds(pipeline_name) ==
    {id \in DOMAIN c_meta :
        \/ pipeline_name = NoPipeline
        \/ JsonLoad(c_meta[id]).pipeline_name = pipeline_name}

\* create_checkpoint(**args), first statement:
\* checkpoint_id = _generate_checkpoint_id
CreateGenerateIdWith(w, args) ==
    /\ c_pc[w] = "idle"
    /\ c_creates < MaxCreates
    /\ c_args' = [c_args EXCEPT ![w] = args]
    /\ c_id' = [c_id EXCEPT
                  ![w] = GenerateCheckpointId(args.pipeline_name, c_clock)]
    /\ c_creates' = c_creates + 1
    /\ c_call' = [c_call EXCEPT ![w] = c_creates + 1]
    /\ c_pc' = [c_pc EXCEPT ![w] = "write_meta"]
    /\ c_loaded' = NoLoad
    /\ c_op' = NoOp
    /\ UNCHANGED <<c_meta, c_data, c_clock, c_live, c_current, notCkpt>>

CreateGenerateId(w) == \E args \in CreateArgs : CreateGenerateIdWith(w, args)

\* the create_checkpoint calls of writers that run at the same time: the
\* steps of one pipeline
ConcurrentCreateArgs == {args \in CreateArgs : args.pipeline_name = "p1"}
ConcurrentCreateGenerateId(w) ==
    \E args \in ConcurrentCreateArgs : CreateGenerateIdWith(w, args)

\* create_checkpoint: checkpoint_data is built (the clock is read again) and
\* dumped to <id>_meta.json
CreateWriteMeta(w) ==
    /\ c_pc[w] = "write_meta"
    /\ c_meta' = WriteFile(c_meta, c_id[w],
                           JsonDump(CheckpointData(c_id[w], c_args[w], c_clock)))
    /\ c_pc' = [c_pc EXCEPT ![w] = "write_data"]
    /\ c_loaded' = NoLoad
    /\ c_op' = NoOp
    /\ UNCHANGED <<c_data, c_clock, c_args, c_call, c_id, c_live, c_current,
                   c_creates, notCkpt>>

\* create_checkpoint: data is pickled to <id>_data.pkl, current_checkpoint
\* is set and the id is returned
CreateWriteData(w) ==
    /\ c_pc[w] = "write_data"
    /\ c_data' = WriteFile(c_data, c_id[w], PickleDump(c_args[w].data))
    /\ c_current' = c_id[w]
    /\ c_live' = IF c_call[w] = 0 THEN c_live
                  ELSE c_live \cup
                         {[id |-> c_id[w], call |-> c_call[w],
                           args |-> c_args[w]]}
    /\ c_pc' = [c_pc EXCEPT ![w] = "idle"]
    /\ c_args' = [c_args EXCEPT ![w] = NoArgs]
    /\ c_call' = [c_call EXCEPT ![w] = 0]
    /\ c_id' = [c_id EXCEPT ![w] = NoId]
    /\ c_loaded' = NoLoad
    /\ c_op' = NoOp
    /\ UNCHANGED <<c_meta, c_clock, c_creates, notCkpt>>

\* the process running create_checkpoint dies; what it wrote stays on disk
Crash(w) ==
    /\ c_pc[w] \in {"write_meta", "write_data"}
    /\ c_pc' = [c_pc EXCEPT ![w] = "idle"]
    /\ c_args' = [c_args EXCEPT ![w] = NoArgs]
    /\ c_call' = [c_call EXCEPT ![w] = 0]
    /\ c_id' = [c_id EXCEPT ![w] = NoId]
    /\ c_loaded' = NoLoad
    /\ c_op' = NoOp
    /\ UNCHANGED <<c_meta, c_data, c_clock, c_live, c_current, c_creates,
                   notCkpt>>

\* time passes
Tick ==
    /\ c_clock < MaxClock
    /\ c_clock' = c_clock + 1
    /\ c_loaded' = NoLoad
    /\ c_op' = NoOp
    /\ UNCHANGED <<c_meta, c_data, c_pc, c_args, c_call, c_id, c_live,
                   c_current, c_creates, notCkpt>>

\* the ids load_checkpoint and delete_checkpoint are called with: those with
\* a file in the directory, and one with none
TargetIds == DOMAIN c_meta \cup DOMAIN c_data \cup {MissingId}

\* load_checkpoint(id); c_loaded keeps what the call found and gave back
\* until the next operation.  A file that goes away between the exists()
\* test and open() makes open() raise the same FileNotFoundError.
Load(id) ==
    /\ c_loaded' = [called |-> TRUE,
                    id |-> id,
                    meta_present |-> id \in DOMAIN c_meta,
                    data_present |-> id \in DOMAIN c_data,
                    live |-> {h \in c_live : h.id = id},
                    out |-> LoadCheckpoint(id)]
    /\ c_op' = NoOp
    /\ UNCHANGED <<c_meta, c_data, c_clock, c_pc, c_args, c_call, c_id,
                   c_live, c_current, c_creates, notCkpt>>

\* delete_checkpoint(id): each file is unlinked if it exists.  A create
\* whose files are deleted, before or after it returned, is no longer
\* followed in c_live (call number 0).
Delete(id) ==
    /\ c_meta' = RemoveFile(c_meta, id)
    /\ c_data' = RemoveFile(c_data, id)
    /\ c_live' = {h \in c_live : h.id # id}
    /\ c_call' = [w \in Writers |->
                    IF c_id[w] = id /\ id \in DOMAIN c_meta \cup DOMAIN c_data
                    THEN 0 ELSE c_call[w]]
    /\ c_loaded' = NoLoad
    /\ c_op' = NoOp
    /\ UNCHANGED <<c_clock, c_pc, c_args, c_id, c_current, c_creates,
                   notCkpt>>

\* 'timestamp' of a listed checkpoint.  The isoformat strings of one clock
\* sort as the clock values do.
Timestamp(dir, id) == JsonLoad(dir[id]).timestamp

\* list_checkpoints(pipeline_name) as a list: the kept metadata sorted by
\* timestamp, newest first; the sort is stable and glob() gives the files in
\* any order, so equal timestamps come in any order
Listings(pipeline_name) ==
    LET ids == ListedIds(pipeline_name)
        n == Cardinality(ids)
    IN  {l \in [1..n -> ids] :
            /\ \A i, j \in 1..n : i # j => l[i] # l[j]
            /\ \A i, j \in 1..n :
                  i < j => Timestamp(c_meta, l[i]) >= Timestamp(c_meta, l[j])}

\* checkpoints[keep_last:]
DropFirst(l, keep_last) == {l[i] : i \in (keep_last + 1)..Len(l)}
RECURSIVE RemoveFiles(_, _)
\* delete_checkpoint for each checkpoint of to_delete
RemoveFiles(dir, ids) ==
    IF ids = {} THEN dir
    ELSE LET id == CHOOSE x \in ids : TRUE
         IN  RemoveFiles(RemoveFile(dir, id), ids \ {id})

\* cleanup_old_checkpoints(pipeline_name, keep_last)
CleanupOldCheckpoints(pipeline_name, keep_last) ==
    /\ \E l \in Listings(pipeline_name) :
          LET to_delete == IF Len(l) <= keep_last THEN {}
                           ELSE DropFirst(l, keep_last)
          IN  /\ c_meta' = RemoveFiles(c_meta, to_delete)
              /\ c_data' = RemoveFiles(c_data, to_delete)
              /\ c_live' = {h \in c_live : h.id \notin to_delete}
              /\ c_call' = [w \in Writers |->
                              IF c_id[w] \in to_delete THEN 0 ELSE c_call[w]]
    /\ c_op' = [NoOp EXCEPT !.op = "cleanup",
                            !.pipeline_name = pipeline_name,
                            !.keep_last = keep_last,
                            !.meta_before = c_meta,
                            !.data_before = c_data]
    /\ c_loaded' = NoLoad
    /\ UNCHANGED <<c_clock, c_pc, c_args, c_id, c_current, c_creates, notCkpt>>

\* get_latest_checkpoint(pipeline_name): every result the call can give
\* (None is raised |-> "none")
GetLatestCheckpoint(pipeline_name) ==
    IF ListedIds(pipeline_name) = {} THEN {NoResult}
    ELSE {LoadCheckpoint(l[1]) : l \in Listings(pipeline_name)}

\* a call of list_checkpoints(pipeline_name): the metadata read from the
\* kept files, in the order of the sorted list
CallListCheckpoints(pipeline_name) ==
    /\ \E l \in Listings(pipeline_name) :
          c_op' = [NoOp EXCEPT !.op = "list",
                               !.pipeline_name = pipeline_name,
                               !.meta_before = c_meta,
                               !.data_before = c_data,
                               !.listed = [i \in 1..Len(l) |->
                                              JsonLoad(c_meta[l[i]])]]
    /\ c_loaded' = NoLoad
    /\ UNCHANGED <<c_meta, c_data, c_clock, c_pc, c_args, c_call, c_id,
                   c_live, c_current, c_creates, notCkpt>>

\* a call of get_latest_checkpoint(pipeline_name)
CallGetLatestCheckpoint(pipeline_name) ==
    /\ \E latest \in GetLatestCheckpoint(pipeline_name) :
          c_op' = [NoOp EXCEPT !.op = "latest",
                               !.pipeline_name = pipeline_name,
                               !.meta_before = c_meta,
                               !.data_before = c_data,
                               !.out = latest]
    /\ c_loaded' = NoLoad
    /\ UNCHANGED <<c_meta, c_data, c_clock, c_pc, c_args, c_call, c_id,
                   c_live, c_current, c_creates, notCkpt>>

\* PipelineRecovery.recover(pipeline_name)
Recover(checkpoint) ==
    IF checkpoint = NoResult
    THEN [raised |-> "ValueError", metadata |-> <<>>, data |-> <<>>]
    ELSE checkpoint

\* a step function applied to the data it is handed
StepNames == {"transform", "load"}
ApplyStep(step, data) == [type |-> "result", items |-> <<step, data>>]
RECURSIVE RunSteps(_, _)
\* for step in remaining_steps: data = step(data); the calls made, in order
RunSteps(steps, data) ==
    IF steps = <<>> THEN <<>>
    ELSE <<[step |-> Head(steps), input |-> data,
            output |-> ApplyStep(Head(steps), data)]>>
         \o RunSteps(Tail(steps), ApplyStep(Head(steps), data))
StepLists == UNION {[1..n -> StepNames] : n \in 0..MaxSteps}

\* PipelineRecovery.resume_from_step(pipeline_name, remaining_steps)
ResumeFromStep(pipeline_name, remaining_steps) ==
    /\ \E latest \in GetLatestCheckpoint(pipeline_name) :
          LET checkpoint == Recover(latest)
              ran == IF checkpoint.raised = "no"
                     THEN RunSteps(remaining_steps, checkpoint.data)
                     ELSE <<>>
              data == IF ran = <<>> THEN checkpoint.data
                      ELSE ran[Len(ran)].output
          IN  c_op' = [NoOp EXCEPT !.op = "resume",
                                  !.pipeline_name = pipeline_name,
                                  !.meta_before = c_meta,
                                  !.data_before = c_data,
                                  !.steps = remaining_steps,
                                  !.ran = ran,
                                  !.out = [checkpoint EXCEPT !.data = data]]
    /\ c_loaded' = NoLoad
    /\ UNCHANGED <<c_meta, c_data, c_clock, c_pc, c_args, c_call, c_id,
                   c_live, c_current, c_creates, notCkpt>>

CkptNext ==
    \/ \E w \in Writers : ConcurrentCreateGenerateId(w)
    \/ \E w \in Writers : CreateWriteMeta(w)
    \/ \E w \in Writers : CreateWriteData(w)
    \/ \E w \in Writers : Crash(w)
    \/ Tick
    \/ \E id \in TargetIds : Load(id)
    \/ \E id \in TargetIds : Delete(id)

\* one process that creates checkpoints (and may die doing so), with the
\* retention and recovery calls made on the same directory
StoreNext ==
    \/ CreateGenerateId(1)
    \/ CreateWriteMeta(1)
    \/ CreateWriteData(1)
    \/ Crash(1)
    \/ Tick
    \/ \E id \in TargetIds : Load(id)
    \/ \E id \in TargetIds : Delete(id)
    \/ \E p \in Pipelines, keep_last \in 0..MaxKeep :
          CleanupOldCheckpoints(p, keep_last)
    \/ \E p \in Pipelines, steps \in StepLists : ResumeFromStep(p, steps)
    \/ \E p \in Pipelines \cup {NoPipeline} : CallListCheckpoints(p)
    \/ \E p \in Pipelines : CallGetLatestCheckpoint(p)

-----------------------------------------------------------------------------
(* RecoverableStep: the wrapper that checkpoints a step's result.  One     *)
(* process calls wrapped steps one after the other; its create_checkpoint  *)
(* calls are those of writer 1.  A step that fails raises an Exception.    *)

\* wrapper calls made, at most (each makes at most one create_checkpoint)
MaxStepCalls == MaxCreates

\* a call wrapper(x, **kwargs) of RecoverableStep(manager, step_name)(func)
StepCalls ==
    [step_name : {"extract", "load"}, has_pipeline : BOOLEAN,
     pipeline_name : {"p1"}, raises : BOOLEAN]
NoStepCall ==
    [step_name |-> "", has_pipeline |-> FALSE, pipeline_name |-> "",
     raises |-> FALSE]
NoStepOut == [kind |-> "none", value |-> PyStr("")]

\* kwargs.get('pipeline_name', 'default')
KwargsGet(call) ==
    IF call.has_pipeline THEN call.pipeline_name ELSE "default"
\* result = func(*args, **kwargs)
StepResult(call) == ApplyStep(call.step_name, PyStr("input"))
StepException(call) == [type |-> "exception", items |-> <<call.step_name>>]
\* metadata={'args': str(args), 'kwargs': str(kwargs)}
StepMetadata(call) ==
    [none |-> FALSE,
     items |-> <<<<"args", PyStr("('input',)")>>,
                 <<"kwargs", PyStr(IF call.has_pipeline
                                   THEN "{'pipeline_name': 'p1'}"
                                   ELSE "{}")>>>>]
\* the create_checkpoint call the wrapper makes
StepCreateArgs(call) ==
    CreateCall(KwargsGet(call), call.step_name, StepResult(call),
               StepMetadata(call))

\* wrapper(*args, **kwargs) is called: func starts
StepCall ==
    \E call \in StepCalls :
        /\ w_pc \in {"idle", "returned", "raised"}
        /\ w_calls < MaxStepCalls
        /\ w_calls' = w_calls + 1
        /\ w_call' = call
        /\ w_out' = NoStepOut
        /\ w_meta_before' = c_meta
        /\ w_data_before' = c_data
        /\ w_creates0' = c_creates
        /\ w_pc' = "func"
        /\ UNCHANGED notStep

\* func raises: logger.error and the bare `raise`
StepFuncRaises ==
    /\ w_pc = "func"
    /\ w_call.raises
    /\ w_out' = [kind |-> "raise", value |-> StepException(w_call)]
    /\ w_pc' = "raised"
    /\ UNCHANGED <<w_call, w_meta_before, w_data_before, w_creates0, w_calls,
                   notStep>>

\* func returns: the wrapper goes on to create_checkpoint
StepFuncReturns ==
    /\ w_pc = "func"
    /\ ~w_call.raises
    /\ w_pc' = "create"
    /\ UNCHANGED <<w_call, w_out, w_meta_before, w_data_before, w_creates0,
                   w_calls, notStep>>

\* the wrapper's create_checkpoint call, first statement
StepCreateGenerateId ==
    /\ w_pc = "create"
    /\ c_creates = w_creates0
    /\ CreateGenerateIdWith(1, StepCreateArgs(w_call))

\* create_checkpoint returned: return result
StepReturn ==
    /\ w_pc = "create"
    /\ c_creates = w_creates0 + 1
    /\ c_pc[1] = "idle"
    /\ w_out' = [kind |-> "return", value |-> StepResult(w_call)]
    /\ w_pc' = "returned"
    /\ UNCHANGED <<w_call, w_meta_before, w_data_before, w_creates0, w_calls,
                   notStep>>

StepNext ==
    \/ StepCall
    \/ StepFuncRaises
    \/ StepFuncReturns
    \/ StepCreateGenerateId
    \/ CreateWriteMeta(1)
    \/ CreateWriteData(1)
    \/ StepReturn
    \/ Tick

-----------------------------------------------------------------------------
(* Pipeline runs: ETLOrchestrator.execute and ETLPipeline.run.  One        *)
(* orchestrator and one pipeline object; their runs are made one after the *)
(* other.  A stage is the extraction, one processing unit (the cleaning    *)
(* processor or one transformation function) or the load; a stage that     *)
(* fails raises an Exception.                                              *)

MaxRuns == 2         \* runs made, at most
MaxRows == 1         \* extracted datasets have 0..MaxRows rows
MaxRunClock == 1     \* time.time() ranges over 0..MaxRunClock

\* the transformations argument: None or a list of functions
TransformationLists == {<<>>, <<"t1">>, <<"t1", "t2">>}
RunArgs ==
    [source : {"in.csv"}, destination : {"out.csv"},
     transformations : TransformationLists, cleaning : BOOLEAN]
NoRunArgs ==
    [source |-> "", destination |-> "", transformations |-> <<>>,
     cleaning |-> FALSE]
NoRunOut == [kind |-> "none", result |-> [status |-> "none"]]

\* str(e) of the exception a stage raises
StageError(stage) == stage \o " failed"

Ran(stage, outcome) == [stage |-> stage, outcome |-> outcome]

\* execute, lines 65-74: the cleaning processor and the transformation
\* processor of this run are added to the orchestrator's chain
ChainAfterAdd(chain, args) ==
    chain \o (IF args.cleaning THEN <<"cleaning">> ELSE <<>>)
          \o args.transformations

\* the processing units a run goes through after extraction
StagesOf(kind, chain, args) ==
    IF kind = "orchestrator" THEN ChainAfterAdd(chain, args)
    ELSE args.transformations

\* where control goes when a stage raises: the stages are inside the try
\* block, whose handler catches Exception
AfterRaiseContinues(pc_next) == pc_next
AfterRaise(pc_next) == "except"

\* the dict a successful run returns
SuccessResult(kind, rows, initial, duration, args) ==
    IF kind = "orchestrator"
    THEN [status |-> "success", rows_processed |-> rows,
          initial_rows |-> initial, duration |-> duration,
          source |-> args.source, destination |-> args.destination]
    ELSE [status |-> "success", rows_processed |-> rows,
          duration |-> duration,
          source |-> args.source, destination |-> args.destination]

\* the dict a failed run returns
FailedResult(kind, error, duration, args) ==
    IF kind = "orchestrator"
    THEN [status |-> "failed", error |-> error, duration |-> duration]
    ELSE [status |-> "failed", error |-> error, duration |-> duration,
          source |-> args.source, destination |-> args.destination]

\* execute(...) or run(...) is called: start_time is taken
CallRun(kind) ==
    \E args \in RunArgs :
        /\ e_pc \in {"idle", "done"}
        /\ e_calls < MaxRuns
        /\ (kind = "pipeline") => ~args.cleaning
        /\ e_calls' = e_calls + 1
        /\ e_kind' = kind
        /\ e_args' = args
        /\ e_start' = e_clock
        /\ e_stages' = <<>>
        /\ e_pos' = 1
        /\ e_ran' = <<>>
        /\ e_rows' = 0
        /\ e_initial' = 0
        /\ e_exc' = ""
        /\ e_out' = NoRunOut
        /\ e_pc' = "extract"
        /\ UNCHANGED <<e_chain, e_clock, e_history, e_returns, notRun>>

\* the source is read; the orchestrator then extends its processor chain
ExtractReturn ==
    \E rows \in 0..MaxRows :
        /\ e_pc = "extract"
        /\ e_ran' = Append(e_ran, Ran("extract", "ok"))
        /\ e_rows' = rows
        /\ e_initial' = rows
        /\ e_chain' = IF e_kind = "orchestrator"
                      THEN ChainAfterAdd(e_chain, e_args) ELSE e_chain
        /\ e_stages' = StagesOf(e_kind, e_chain, e_args)
        /\ e_pos' = 1
        /\ e_pc' = "stages"
        /\ UNCHANGED <<e_kind, e_args, e_exc, e_start, e_clock, e_out,
                       e_history, e_calls, e_returns, notRun>>

\* creating the source connector or reading the source raises
ExtractRaise ==
    /\ e_pc = "extract"
    /\ e_ran' = Append(e_ran, Ran("extract", "raise"))
    /\ e_exc' = StageError("extract")
    /\ e_pc' = AfterRaise("stages")
    /\ UNCHANGED <<e_kind, e_args, e_chain, e_stages, e_pos, e_rows,
                   e_initial, e_start, e_clock, e_out, e_history, e_calls,
                   e_returns, notRun>>

\* one processing unit returns a frame, possibly with fewer rows
StageReturn ==
    \E rows \in {e_rows, IF e_rows > 0 THEN e_rows - 1 ELSE 0} :
        /\ e_pc = "stages"
        /\ e_pos <= Len(e_stages)
        /\ e_ran' = Append(e_ran, Ran(e_stages[e_pos], "ok"))
        /\ e_rows' = rows
        /\ e_pos' = e_pos + 1
        /\ UNCHANGED <<e_pc, e_kind, e_args, e_chain, e_stages, e_initial,
                       e_exc, e_start, e_clock, e_out, e_history, e_calls,
                       e_returns, notRun>>

\* one processing unit raises
StageRaise ==
    /\ e_pc = "stages"
    /\ e_pos <= Len(e_stages)
    /\ e_ran' = Append(e_ran, Ran(e_stages[e_pos], "raise"))
    /\ e_exc' = StageError(e_stages[e_pos])
    /\ e_pos' = e_pos + 1
    /\ e_pc' = AfterRaise("stages")
    /\ UNCHANGED <<e_kind, e_args, e_chain, e_stages, e_rows, e_initial,
                   e_start, e_clock, e_out, e_history, e_calls, e_returns,
                   notRun>>

\* the frame is written to the destination
LoadReturn ==
    /\ e_pc = "stages"
    /\ e_pos > Len(e_stages)
    /\ e_ran' = Append(e_ran, Ran("load", "ok"))
    /\ e_pc' = "loaded"
    /\ UNCHANGED <<e_kind, e_args, e_chain, e_stages, e_pos, e_rows,
                   e_initial, e_exc, e_start, e_clock, e_out, e_history,
                   e_calls, e_returns, notRun>>

\* creating the destination connector or writing raises
LoadRaise ==
    /\ e_pc = "stages"
    /\ e_pos > Len(e_stages)
    /\ e_ran' = Append(e_ran, Ran("load", "raise"))
    /\ e_exc' = StageError("load")
    /\ e_pc' = AfterRaise("loaded")
    /\ UNCHANGED <<e_kind, e_args, e_chain, e_stages, e_pos, e_rows,
                   e_initial, e_start, e_clock, e_out, e_history, e_calls,
                   e_returns, notRun>>

\* the run gives `result` to its caller; ETLPipeline.run appends it to
\* execution_history first
ReturnResult(result) ==
    /\ e_out' = [kind |-> "return", result |-> result]
    /\ e_history' = IF e_kind = "pipeline"
                    THEN Append(e_history, result) ELSE e_history
    /\ e_returns' = e_returns + 1
    /\ e_pc' = "done"
    /\ UNCHANGED <<e_kind, e_args, e_chain, e_stages, e_pos, e_ran, e_rows,
                   e_initial, e_exc, e_start, e_clock, e_calls, notRun>>

\* after the load: duration is taken and the success dict returned
ReturnSuccess ==
    /\ e_pc = "loaded"
    /\ ReturnResult(SuccessResult(e_kind, e_rows, e_initial,
                                  e_clock - e_start, e_args))

\* the except block: duration is taken and the failed dict returned
ReturnFailed ==
    /\ e_pc = "except"
    /\ ReturnResult(FailedResult(e_kind, e_exc, e_clock - e_start, e_args))

\* time passes
RunTick ==
    /\ e_clock < MaxRunClock
    /\ e_clock' = e_clock + 1
    /\ UNCHANGED <<e_pc, e_kind, e_args, e_chain, e_stages, e_pos, e_ran,
                   e_rows, e_initial, e_exc, e_start, e_out, e_history,
                   e_calls, e_returns, notRun>>

RunNext ==
    \/ CallRun("orchestrator")
    \/ CallRun("pipeline")
    \/ ExtractReturn
    \/ ExtractRaise
    \/ StageReturn
    \/ StageRaise
    \/ LoadReturn
    \/ LoadRaise
    \/ ReturnSuccess
    \/ ReturnFailed
    \/ RunTick

-----------------------------------------------------------------------------
(* Adaptive batch sizer: AdaptiveBatchProcessor.  Sizes are row counts,    *)
(* zero or more.  Times are in hundredths of a second.  int(n * 0.8) and   *)
(* int(n * 1.2) are the floors of 4n/5 and 6n/5: the floating-point        *)
(* products give exactly these integers for every n up to 200000.          *)

Runs == {"mixed", "fast", "slow"}
TargetTimes == {100}
\* AdaptiveBatchProcessor(): initial_batch_size=1000, min_batch_size=100,
\* max_batch_size=10000, target_time=1.0
DefaultSizerConfig ==
    [initial_batch_size |-> 1000, min_batch_size |-> 100,
     max_batch_size |-> 10000, target_time |-> 100]
NoSizerConfig ==
    [initial_batch_size |-> 0, min_batch_size |-> 0,
     max_batch_size |-> 0, target_time |-> 0]
SizerConfigs ==
    [initial_batch_size : 0..MaxSize, min_batch_size : 0..MaxSize,
     max_batch_size : 0..MaxSize, target_time : TargetTimes]
        \cup {DefaultSizerConfig}

\* execution_time > self.target_time * 1.2
IsSlowOrEdge(execution_time, target_time) ==
    10 * execution_time >= 12 * target_time
IsSlow(execution_time, target_time) == 10 * execution_time > 12 * target_time
\* execution_time < self.target_time * 0.8
IsFast(execution_time, target_time) == 10 * execution_time < 8 * target_time

\* int(self.batch_size * 0.8)
ShrinkSizeKept(batch_size) == batch_size
ShrinkSize(batch_size) == (batch_size * 4) \div 5
\* int(self.batch_size * 1.2)
GrowSize(batch_size) == (batch_size * 6) \div 5

\* the batch_size _adjust_batch_size(execution_time) leaves
AdjustedSize(batch_size, cfg, execution_time) ==
    IF IsSlow(execution_time, cfg.target_time)
    THEN Max(ShrinkSize(batch_size), cfg.min_batch_size)
    ELSE IF IsFast(execution_time, cfg.target_time)
    THEN Min(GrowSize(batch_size), cfg.max_batch_size)
    ELSE batch_size

\* the durations a run observes, for target_time 1.0: well below the band,
\* its two edges, inside it, and well above it
Durations(run) ==
    IF run = "fast" THEN {50}
    ELSE IF run = "slow" THEN {150}
    ELSE {50, 80, 100, 120, 150}

\* AdaptiveBatchProcessor.__init__: the arguments are stored as given
Construct(cfg) ==
    /\ a_pc = "none"
    /\ a_pc' = "constructed"
    /\ a_cfg' = cfg
    /\ a_batch_size' = cfg.initial_batch_size
    /\ a_times' = 0
    /\ UNCHANGED <<a_last, a_prev, a_run, notSizer>>

\* _adjust_batch_size(execution_time)
AdjustBatchSize(execution_time) ==
    /\ a_pc = "constructed"
    /\ a_times < MaxCalls
    /\ a_batch_size' = AdjustedSize(a_batch_size, a_cfg, execution_time)
    /\ a_times' = a_times + 1
    /\ a_last' = execution_time
    /\ a_prev' = a_batch_size
    /\ UNCHANGED <<a_pc, a_cfg, a_run, notSizer>>

\* the call made after each unit of a run
AdjustStep == \E execution_time \in Durations(a_run) :
                  AdjustBatchSize(execution_time)

SizerNext ==
    \/ \E cfg \in SizerConfigs : Construct(cfg)
    \/ AdjustStep

-----------------------------------------------------------------------------
(* Sequential processing: AdaptiveBatchProcessor.process and               *)
(* BatchProcessor.process_in_batches, with the progress callback.  A unit  *)
(* takes two steps: the slice is cut and func is called, then func returns *)
(* (or raises) and the rest of the loop body runs.  The parallel path,     *)
(* ParallelBatchProcessor.process_parallel, is the dispatcher above; it    *)
(* takes no callback.                                                      *)

notProcSizer == <<splitVars, dispatchVars, retryVars, ckptVars, stepVars,
                   runVars>>

\* units one call runs, at most (a batch size of 0 never ends the loop)
MaxRunUnits == MaxLen + 2

\* len(df) // batch_size + (1 if len(df) % batch_size else 0)
TotalBatches(len, batch_size) ==
    len \div batch_size + (IF len % batch_size # 0 THEN 1 ELSE 0)

\* start_idx = end_idx
NextStartSkipsRow(start_idx, end_idx) == end_idx + 1
NextStart(start_idx, end_idx) == end_idx

StartRun(op, len, step, cb) ==
    /\ p_pc = "idle"
    /\ d_pc = "idle"
    /\ p_op' = op
    /\ p_cb' = cb
    /\ p_len' = len
    /\ p_step' = step
    /\ p_start' = 0
    /\ p_slices' = <<>>
    /\ p_sizes' = <<>>
    /\ p_progress' = <<>>
    /\ p_times0' = a_times
    /\ p_pc' = "loop"
    /\ UNCHANGED <<sizerVars, notProcSizer>>

\* AdaptiveBatchProcessor(...), made before any call
ConstructSizer ==
    \E cfg \in SizerConfigs :
        /\ p_pc = "idle"
        /\ d_pc = "idle"
        /\ Construct(cfg)

\* AdaptiveBatchProcessor.process(df, func, progress_callback): the
\* statements before the loop
CallProcess ==
    \E len \in 0..MaxLen, cb \in BOOLEAN :
        /\ a_pc = "constructed"
        /\ StartRun("process", len, 0, cb)

\* BatchProcessor(batch_size).process_in_batches(df, func, progress_callback):
\* the statements before the loop
CallProcessInBatchesProgress ==
    \E len \in 0..MaxLen, batch_size \in 1..MaxStep, cb \in BOOLEAN :
        /\ a_pc = "none"
        /\ StartRun("process_in_batches", len, batch_size, cb)

\* the loop condition holds: the next slice is cut and func(batch) is called
UnitStart ==
    /\ p_pc = "loop"
    /\ p_start < p_len
    /\ Len(p_slices) < MaxRunUnits
    /\ LET size == IF p_op = "process" THEN a_batch_size ELSE p_step
       IN  /\ p_slices' = Append(p_slices,
                                 <<p_start, SliceEnd(p_start, size, p_len)>>)
           /\ p_sizes' = Append(p_sizes, size)
    /\ p_pc' = "unit"
    /\ UNCHANGED <<p_op, p_cb, p_len, p_step, p_start, p_progress, p_times0,
                   sizerVars, notProcSizer>>

\* process: func returned after execution_time; results.append,
\* _adjust_batch_size(execution_time), progress_callback(end_idx, total_rows),
\* start_idx = end_idx
ProcessUnitReturn ==
    \E execution_time \in Durations(a_run) :
        LET end_idx == p_slices[Len(p_slices)][2]
        IN  /\ p_pc = "unit"
            /\ p_op = "process"
            /\ a_batch_size' = AdjustedSize(a_batch_size, a_cfg, execution_time)
            /\ a_times' = a_times + 1
            /\ a_last' = execution_time
            /\ a_prev' = a_batch_size
            /\ p_progress' = IF p_cb
                             THEN Append(p_progress, <<end_idx, p_len>>)
                             ELSE p_progress
            /\ p_start' = NextStart(p_start, end_idx)
            /\ p_pc' = "loop"
            /\ UNCHANGED <<p_op, p_cb, p_len, p_step, p_slices, p_sizes,
                           p_times0, a_pc, a_cfg, a_run, notProcSizer>>

\* process_in_batches: func returned; results.append,
\* progress_callback(i + 1, total_batches), next value of range()
BatchUnitReturn ==
    /\ p_pc = "unit"
    /\ p_op = "process_in_batches"
    /\ p_progress' = IF p_cb
                     THEN Append(p_progress,
                                 <<Len(p_slices), TotalBatches(p_len, p_step)>>)
                     ELSE p_progress
    /\ p_start' = p_start + p_step
    /\ p_pc' = "loop"
    /\ UNCHANGED <<p_op, p_cb, p_len, p_step, p_slices, p_sizes, p_times0,
                   sizerVars, notProcSizer>>

\* func raised: neither loop has a try, the exception leaves the call
UnitRaise ==
    /\ p_pc = "unit"
    /\ p_pc' = "raised"
    /\ UNCHANGED <<p_op, p_cb, p_len, p_step, p_start, p_slices, p_sizes,
                   p_progress, p_times0, sizerVars, notProcSizer>>

\* the loop condition fails: the call returns `results`
RunReturn ==
    /\ p_pc = "loop"
    /\ p_start >= p_len
    /\ p_pc' = "done"
    /\ UNCHANGED <<p_op, p_cb, p_len, p_step, p_start, p_slices, p_sizes,
                   p_progress, p_times0, sizerVars, notProcSizer>>

\* ParallelBatchProcessor.process_parallel(df, func), as the only call made
CallProcessParallelAlone ==
    /\ p_pc = "idle"
    /\ a_pc = "none"
    /\ CallProcessParallel

ProcessNext ==
    \/ ConstructSizer
    \/ CallProcess
    \/ CallProcessInBatchesProgress
    \/ UnitStart
    \/ ProcessUnitReturn
    \/ BatchUnitReturn
    \/ UnitRaise
    \/ RunReturn
    \/ CallProcessParallelAlone
    \/ WorkerStart
    \/ WorkerReturn
    \/ WorkerRaise
    \/ Collect
    \/ ReturnResults

-----------------------------------------------------------------------------
(* The specifications.  Each starts from the constructed objects of one  *)
(* component; the other components stay as constructed.                  *)

\* the slicing loops: state after construction
SplitInit ==
    /\ sq_cfg \in SplitConfigs
    /\ sq_op = "none"
    /\ sq_n = 0
    /\ sq_len = 0
    /\ sq_step = 0
    /\ sq_start = 0
    /\ sq_slices = <<>>
    /\ sq_pc = "idle"
    /\ d_cfg = [n_workers |-> 1, batch_size |-> 1]
    /\ d_op = "none"
    /\ d_units = <<>>
    /\ d_state = <<>>
    /\ d_results = <<>>
    /\ d_collected = {}
    /\ d_log = <<>>
    /\ d_pc = "idle"
    /\ d_ret = <<>>
    /\ r_kind = "none"
    /\ r_cfg = [max_attempts |-> 1, delay |-> 8, backoff_factor |-> <<1, 1>>,
                max_delay |-> 8, exceptions |-> {"Exception"}]
    /\ r_stats = ZeroStats
    /\ r_script = <<>>
    /\ r_calls = 0
    /\ r_attempt = 0
    /\ r_delay = 0
    /\ r_sleeps = <<>>
    /\ r_pc = "idle"
    /\ r_out = None
    /\ r_before = ZeroStats
    /\ r_ops = 0
    /\ c_meta = EmptyDir
    /\ c_data = EmptyDir
    /\ c_clock = 0
    /\ c_pc = [w \in Writers |-> "idle"]
    /\ c_args = [w \in Writers |-> NoArgs]
    /\ c_call = [w \in Writers |-> 0]
    /\ c_id = [w \in Writers |-> NoId]
    /\ c_live = {}
    /\ c_loaded = NoLoad
    /\ c_current = NoId
    /\ c_creates = 0
    /\ c_op = NoOp
    /\ a_pc = "none"
    /\ a_cfg = NoSizerConfig
    /\ a_batch_size = 0
    /\ a_times = 0
    /\ a_last = 0
    /\ a_prev = 0
    /\ a_run = "mixed"
    /\ p_op = "none"
    /\ p_pc = "idle"
    /\ p_cb = FALSE
    /\ p_len = 0
    /\ p_step = 0
    /\ p_start = 0
    /\ p_slices = <<>>
    /\ p_sizes = <<>>
    /\ p_progress = <<>>
    /\ p_times0 = 0
    /\ w_pc = "idle"
    /\ w_call = NoStepCall
    /\ w_out = NoStepOut
    /\ w_meta_before = EmptyDir
    /\ w_data_before = EmptyDir
    /\ w_creates0 = 0
    /\ w_calls = 0
    /\ e_pc = "idle"
    /\ e_kind = "none"
    /\ e_args = NoRunArgs
    /\ e_chain = <<>>
    /\ e_stages = <<>>
    /\ e_pos = 1
    /\ e_ran = <<>>
    /\ e_rows = 0
    /\ e_initial = 0
    /\ e_exc = ""
    /\ e_start = 0
    /\ e_clock = 0
    /\ e_out = NoRunOut
    /\ e_history = <<>>
    /\ e_calls = 0
    /\ e_returns = 0

SpecSplit == SplitInit /\ [][SplitNext]_vars

\* the dispatcher: state after construction
DispatchInit ==
    /\ sq_cfg = [n_workers |-> 1, batch_size |-> 1, max_memory_mb |-> 0]
    /\ sq_op = "none"
    /\ sq_n = 0
    /\ sq_len = 0
    /\ sq_step = 0
    /\ sq_start = 0
    /\ sq_slices = <<>>
    /\ sq_pc = "idle"
    /\ d_cfg \in [n_workers : 1..MaxStep, batch_size : 1..MaxStep]
    /\ d_op = "none"
    /\ d_units = <<>>
    /\ d_state = <<>>
    /\ d_results = <<>>
    /\ d_collected = {}
    /\ d_log = <<>>
    /\ d_pc = "idle"
    /\ d_ret = <<>>
    /\ r_kind = "none"
    /\ r_cfg = [max_attempts |-> 1, delay |-> 8, backoff_factor |-> <<1, 1>>,
                max_delay |-> 8, exceptions |-> {"Exception"}]
    /\ r_stats = ZeroStats
    /\ r_script = <<>>
    /\ r_calls = 0
    /\ r_attempt = 0
    /\ r_delay = 0
    /\ r_sleeps = <<>>
    /\ r_pc = "idle"
    /\ r_out = None
    /\ r_before = ZeroStats
    /\ r_ops = 0
    /\ c_meta = EmptyDir
    /\ c_data = EmptyDir
    /\ c_clock = 0
    /\ c_pc = [w \in Writers |-> "idle"]
    /\ c_args = [w \in Writers |-> NoArgs]
    /\ c_call = [w \in Writers |-> 0]
    /\ c_id = [w \in Writers |-> NoId]
    /\ c_live = {}
    /\ c_loaded = NoLoad
    /\ c_current = NoId
    /\ c_creates = 0
    /\ c_op = NoOp
    /\ a_pc = "none"
    /\ a_cfg = NoSizerConfig
    /\ a_batch_size = 0
    /\ a_times = 0
    /\ a_last = 0
    /\ a_prev = 0
    /\ a_run = "mixed"
    /\ p_op = "none"
    /\ p_pc = "idle"
    /\ p_cb = FALSE
    /\ p_len = 0
    /\ p_step = 0
    /\ p_start = 0
    /\ p_slices = <<>>
    /\ p_sizes = <<>>
    /\ p_progress = <<>>
    /\ p_times0 = 0
    /\ w_pc = "idle"
    /\ w_call = NoStepCall
    /\ w_out = NoStepOut
    /\ w_meta_before = EmptyDir
    /\ w_data_before = EmptyDir
    /\ w_creates0 = 0
    /\ w_calls = 0
    /\ e_pc = "idle"
    /\ e_kind = "none"
    /\ e_args = NoRunArgs
    /\ e_chain = <<>>
    /\ e_stages = <<>>
    /\ e_pos = 1
    /\ e_ran = <<>>
    /\ e_rows = 0
    /\ e_initial = 0
    /\ e_exc = ""
    /\ e_start = 0
    /\ e_clock = 0
    /\ e_out = NoRunOut
    /\ e_history = <<>>
    /\ e_calls = 0
    /\ e_returns = 0

SpecDispatch == DispatchInit /\ [][DispatchNext]_vars

\* the split-then-run dispatcher: ParallelProcessor after construction
ChunksInit ==
    /\ sq_cfg = [n_workers |-> 1, batch_size |-> 1, max_memory_mb |-> 0]
    /\ sq_op = "none"
    /\ sq_n = 0
    /\ sq_len = 0
    /\ sq_step = 0
    /\ sq_start = 0
    /\ sq_slices = <<>>
    /\ sq_pc = "idle"
    /\ d_cfg \in [n_workers : 1..MaxStep, use_processes : BOOLEAN]
    /\ d_op = "none"
    /\ d_units = <<>>
    /\ d_state = <<>>
    /\ d_results = <<>>
    /\ d_collected = {}
    /\ d_log = <<>>
    /\ d_pc = "idle"
    /\ d_ret = <<>>
    /\ r_kind = "none"
    /\ r_cfg = [max_attempts |-> 1, delay |-> 8, backoff_factor |-> <<1, 1>>,
                max_delay |-> 8, exceptions |-> {"Exception"}]
    /\ r_stats = ZeroStats
    /\ r_script = <<>>
    /\ r_calls = 0
    /\ r_attempt = 0
    /\ r_delay = 0
    /\ r_sleeps = <<>>
    /\ r_pc = "idle"
    /\ r_out = None
    /\ r_before = ZeroStats
    /\ r_ops = 0
    /\ c_meta = EmptyDir
    /\ c_data = EmptyDir
    /\ c_clock = 0
    /\ c_pc = [w \in Writers |-> "idle"]
    /\ c_args = [w \in Writers |-> NoArgs]
    /\ c_call = [w \in Writers |-> 0]
    /\ c_id = [w \in Writers |-> NoId]
    /\ c_live = {}
    /\ c_loaded = NoLoad
    /\ c_current = NoId
    /\ c_creates = 0
    /\ c_op = NoOp
    /\ a_pc = "none"
    /\ a_cfg = NoSizerConfig
    /\ a_batch_size = 0
    /\ a_times = 0
    /\ a_last = 0
    /\ a_prev = 0
    /\ a_run = "mixed"
    /\ p_op = "none"
    /\ p_pc = "idle"
    /\ p_cb = FALSE
    /\ p_len = 0
    /\ p_step = 0
    /\ p_start = 0
    /\ p_slices = <<>>
    /\ p_sizes = <<>>
    /\ p_progress = <<>>
    /\ p_times0 = 0
    /\ w_pc = "idle"
    /\ w_call = NoStepCall
    /\ w_out = NoStepOut
    /\ w_meta_before = EmptyDir
    /\ w_data_before = EmptyDir
    /\ w_creates0 = 0
    /\ w_calls = 0
    /\ e_pc = "idle"
    /\ e_kind = "none"
    /\ e_args = NoRunArgs
    /\ e_chain = <<>>
    /\ e_stages = <<>>
    /\ e_pos = 1
    /\ e_ran = <<>>
    /\ e_rows = 0
    /\ e_initial = 0
    /\ e_exc = ""
    /\ e_start = 0
    /\ e_clock = 0
    /\ e_out = NoRunOut
    /\ e_history = <<>>
    /\ e_calls = 0
    /\ e_returns = 0

SpecChunks == ChunksInit /\ [][ChunksNext]_vars

\* the retry executor: state after construction
RetryInit ==
    /\ sq_cfg = [n_workers |-> 1, batch_size |-> 1, max_memory_mb |-> 0]
    /\ sq_op = "none"
    /\ sq_n = 0
    /\ sq_len = 0
    /\ sq_step = 0
    /\ sq_start = 0
    /\ sq_slices = <<>>
    /\ sq_pc = "idle"
    /\ d_cfg = [n_workers |-> 1, batch_size |-> 1]
    /\ d_op = "none"
    /\ d_units = <<>>
    /\ d_state = <<>>
    /\ d_results = <<>>
    /\ d_collected = {}
    /\ d_log = <<>>
    /\ d_pc = "idle"
    /\ d_ret = <<>>
    /\ r_kind = "none"
    /\ r_cfg \in RetryConfigs
    /\ r_stats = ZeroStats
    /\ r_script = <<>>
    /\ r_calls = 0
    /\ r_attempt = 0
    /\ r_delay = 0
    /\ r_sleeps = <<>>
    /\ r_pc = "idle"
    /\ r_out = None
    /\ r_before = ZeroStats
    /\ r_ops = 0
    /\ c_meta = EmptyDir
    /\ c_data = EmptyDir
    /\ c_clock = 0
    /\ c_pc = [w \in Writers |-> "idle"]
    /\ c_args = [w \in Writers |-> NoArgs]
    /\ c_call = [w \in Writers |-> 0]
    /\ c_id = [w \in Writers |-> NoId]
    /\ c_live = {}
    /\ c_loaded = NoLoad
    /\ c_current = NoId
    /\ c_creates = 0
    /\ c_op = NoOp
    /\ a_pc = "none"
    /\ a_cfg = NoSizerConfig
    /\ a_batch_size = 0
    /\ a_times = 0
    /\ a_last = 0
    /\ a_prev = 0
    /\ a_run = "mixed"
    /\ p_op = "none"
    /\ p_pc = "idle"
    /\ p_cb = FALSE
    /\ p_len = 0
    /\ p_step = 0
    /\ p_start = 0
    /\ p_slices = <<>>
    /\ p_sizes = <<>>
    /\ p_progress = <<>>
    /\ p_times0 = 0
    /\ w_pc = "idle"
    /\ w_call = NoStepCall
    /\ w_out = NoStepOut
    /\ w_meta_before = EmptyDir
    /\ w_data_before = EmptyDir
    /\ w_creates0 = 0
    /\ w_calls = 0
    /\ e_pc = "idle"
    /\ e_kind = "none"
    /\ e_args = NoRunArgs
    /\ e_chain = <<>>
    /\ e_stages = <<>>
    /\ e_pos = 1
    /\ e_ran = <<>>
    /\ e_rows = 0
    /\ e_initial = 0
    /\ e_exc = ""
    /\ e_start = 0
    /\ e_clock = 0
    /\ e_out = NoRunOut
    /\ e_history = <<>>
    /\ e_calls = 0
    /\ e_returns = 0

SpecRetry == RetryInit /\ [][RetryNext]_vars

\* the checkpoint store: state after construction
CkptInit ==
    /\ sq_cfg = [n_workers |-> 1, batch_size |-> 1, max_memory_mb |-> 0]
    /\ sq_op = "none"
    /\ sq_n = 0
    /\ sq_len = 0
    /\ sq_step = 0
    /\ sq_start = 0
    /\ sq_slices = <<>>
    /\ sq_pc = "idle"
    /\ d_cfg = [n_workers |-> 1, batch_size |-> 1]
    /\ d_op = "none"
    /\ d_units = <<>>
    /\ d_state = <<>>
    /\ d_results = <<>>
    /\ d_collected = {}
    /\ d_log = <<>>
    /\ d_pc = "idle"
    /\ d_ret = <<>>
    /\ r_kind = "none"
    /\ r_cfg = [max_attempts |-> 1, delay |-> 8, backoff_factor |-> <<1, 1>>,
                max_delay |-> 8, exceptions |-> {"Exception"}]
    /\ r_stats = ZeroStats
    /\ r_script = <<>>
    /\ r_calls = 0
    /\ r_attempt = 0
    /\ r_delay = 0
    /\ r_sleeps = <<>>
    /\ r_pc = "idle"
    /\ r_out = None
    /\ r_before = ZeroStats
    /\ r_ops = 0
    /\ c_meta = EmptyDir
    /\ c_data = EmptyDir
    /\ c_clock = 0
    /\ c_pc = [w \in Writers |-> "idle"]
    /\ c_args = [w \in Writers |-> NoArgs]
    /\ c_call = [w \in Writers |-> 0]
    /\ c_id = [w \in Writers |-> NoId]
    /\ c_live = {}
    /\ c_loaded = NoLoad
    /\ c_current = NoId
    /\ c_creates = 0
    /\ c_op = NoOp
    /\ a_pc = "none"
    /\ a_cfg = NoSizerConfig
    /\ a_batch_size = 0
    /\ a_times = 0
    /\ a_last = 0
    /\ a_prev = 0
    /\ a_run = "mixed"
    /\ p_op = "none"
    /\ p_pc = "idle"
    /\ p_cb = FALSE
    /\ p_len = 0
    /\ p_step = 0
    /\ p_start = 0
    /\ p_slices = <<>>
    /\ p_sizes = <<>>
    /\ p_progress = <<>>
    /\ p_times0 = 0
    /\ w_pc = "idle"
    /\ w_call = NoStepCall
    /\ w_out = NoStepOut
    /\ w_meta_before = EmptyDir
    /\ w_data_before = EmptyDir
    /\ w_creates0 = 0
    /\ w_calls = 0
    /\ e_pc = "idle"
    /\ e_kind = "none"
    /\ e_args = NoRunArgs
    /\ e_chain = <<>>
    /\ e_stages = <<>>
    /\ e_pos = 1
    /\ e_ran = <<>>
    /\ e_rows = 0
    /\ e_initial = 0
    /\ e_exc = ""
    /\ e_start = 0
    /\ e_clock = 0
    /\ e_out = NoRunOut
    /\ e_history = <<>>
    /\ e_calls = 0
    /\ e_returns = 0

SpecCkpt == CkptInit /\ [][CkptNext]_vars

\* the checkpoint store used by one process, with retention and recovery
SpecStore == CkptInit /\ [][StoreNext]_vars

\* the sizer before construction; process calls _adjust_batch_size after
\* every unit, so a run keeps making calls
SizerInit ==
    /\ sq_cfg = [n_workers |-> 1, batch_size |-> 1, max_memory_mb |-> 0]
    /\ sq_op = "none"
    /\ sq_n = 0
    /\ sq_len = 0
    /\ sq_step = 0
    /\ sq_start = 0
    /\ sq_slices = <<>>
    /\ sq_pc = "idle"
    /\ d_cfg = [n_workers |-> 1, batch_size |-> 1]
    /\ d_op = "none"
    /\ d_units = <<>>
    /\ d_state = <<>>
    /\ d_results = <<>>
    /\ d_collected = {}
    /\ d_log = <<>>
    /\ d_pc = "idle"
    /\ d_ret = <<>>
    /\ r_kind = "none"
    /\ r_cfg = [max_attempts |-> 1, delay |-> 8, backoff_factor |-> <<1, 1>>,
                max_delay |-> 8, exceptions |-> {"Exception"}]
    /\ r_stats = ZeroStats
    /\ r_script = <<>>
    /\ r_calls = 0
    /\ r_attempt = 0
    /\ r_delay = 0
    /\ r_sleeps = <<>>
    /\ r_pc = "idle"
    /\ r_out = None
    /\ r_before = ZeroStats
    /\ r_ops = 0
    /\ c_meta = EmptyDir
    /\ c_data = EmptyDir
    /\ c_clock = 0
    /\ c_pc = [w \in Writers |-> "idle"]
    /\ c_args = [w \in Writers |-> NoArgs]
    /\ c_call = [w \in Writers |-> 0]
    /\ c_id = [w \in Writers |-> NoId]
    /\ c_live = {}
    /\ c_loaded = NoLoad
    /\ c_current = NoId
    /\ c_creates = 0
    /\ c_op = NoOp
    /\ a_pc = "none"
    /\ a_cfg = NoSizerConfig
    /\ a_batch_size = 0
    /\ a_times = 0
    /\ a_last = 0
    /\ a_prev = 0
    /\ a_run \in Runs
    /\ p_op = "none"
    /\ p_pc = "idle"
    /\ p_cb = FALSE
    /\ p_len = 0
    /\ p_step = 0
    /\ p_start = 0
    /\ p_slices = <<>>
    /\ p_sizes = <<>>
    /\ p_progress = <<>>
    /\ p_times0 = 0
    /\ w_pc = "idle"
    /\ w_call = NoStepCall
    /\ w_out = NoStepOut
    /\ w_meta_before = EmptyDir
    /\ w_data_before = EmptyDir
    /\ w_creates0 = 0
    /\ w_calls = 0
    /\ e_pc = "idle"
    /\ e_kind = "none"
    /\ e_args = NoRunArgs
    /\ e_chain = <<>>
    /\ e_stages = <<>>
    /\ e_pos = 1
    /\ e_ran = <<>>
    /\ e_rows = 0
    /\ e_initial = 0
    /\ e_exc = ""
    /\ e_start = 0
    /\ e_clock = 0
    /\ e_out = NoRunOut
    /\ e_history = <<>>
    /\ e_calls = 0
    /\ e_returns = 0

SpecSizer == SizerInit /\ [][SizerNext]_vars /\ WF_vars(AdjustStep)


\* the checkpoint store and the wrapped steps of one process
SpecStep == CkptInit /\ [][StepNext]_vars

\* the runs of one orchestrator and one pipeline
SpecRun == CkptInit /\ [][RunNext]_vars

\* no processor constructed yet, but ParallelBatchProcessor(n_workers=2,
\* batch_size=2)
ProcessInit ==
    /\ sq_cfg = [n_workers |-> 1, batch_size |-> 1, max_memory_mb |-> 0]
    /\ sq_op = "none"
    /\ sq_n = 0
    /\ sq_len = 0
    /\ sq_step = 0
    /\ sq_start = 0
    /\ sq_slices = <<>>
    /\ sq_pc = "idle"
    /\ d_cfg = [n_workers |-> 2, batch_size |-> 2]
    /\ d_op = "none"
    /\ d_units = <<>>
    /\ d_state = <<>>
    /\ d_results = <<>>
    /\ d_collected = {}
    /\ d_log = <<>>
    /\ d_pc = "idle"
    /\ d_ret = <<>>
    /\ r_kind = "none"
    /\ r_cfg = [max_attempts |-> 1, delay |-> 8, backoff_factor |-> <<1, 1>>,
                max_delay |-> 8, exceptions |-> {"Exception"}]
    /\ r_stats = ZeroStats
    /\ r_script = <<>>
    /\ r_calls = 0
    /\ r_attempt = 0
    /\ r_delay = 0
    /\ r_sleeps = <<>>
    /\ r_pc = "idle"
    /\ r_out = None
    /\ r_before = ZeroStats
    /\ r_ops = 0
    /\ c_meta = EmptyDir
    /\ c_data = EmptyDir
    /\ c_clock = 0
    /\ c_pc = [w \in Writers |-> "idle"]
    /\ c_args = [w \in Writers |-> NoArgs]
    /\ c_call = [w \in Writers |-> 0]
    /\ c_id = [w \in Writers |-> NoId]
    /\ c_live = {}
    /\ c_loaded = NoLoad
    /\ c_current = NoId
    /\ c_creates = 0
    /\ c_op = NoOp
    /\ a_pc = "none"
    /\ a_cfg = NoSizerConfig
    /\ a_batch_size = 0
    /\ a_times = 0
    /\ a_last = 0
    /\ a_prev = 0
    /\ a_run = "mixed"
    /\ p_op = "none"
    /\ p_pc = "idle"
    /\ p_cb = FALSE
    /\ p_len = 0
    /\ p_step = 0
    /\ p_start = 0
    /\ p_slices = <<>>
    /\ p_sizes = <<>>
    /\ p_progress = <<>>
    /\ p_times0 = 0
    /\ w_pc = "idle"
    /\ w_call = NoStepCall
    /\ w_out = NoStepOut
    /\ w_meta_before = EmptyDir
    /\ w_data_before = EmptyDir
    /\ w_creates0 = 0
    /\ w_calls = 0
    /\ e_pc = "idle"
    /\ e_kind = "none"
    /\ e_args = NoRunArgs
    /\ e_chain = <<>>
    /\ e_stages = <<>>
    /\ e_pos = 1
    /\ e_ran = <<>>
    /\ e_rows = 0
    /\ e_initial = 0
    /\ e_exc = ""
    /\ e_start = 0
    /\ e_clock = 0
    /\ e_out = NoRunOut
    /\ e_history = <<>>
    /\ e_calls = 0
    /\ e_returns = 0

SpecProcess == ProcessInit /\ [][ProcessNext]_vars

-----------------------------------------------------------------------------
(* Claims about slicing. *)

SliceLen(s) == s[2] - s[1]

\* C3: the slices handed out by split_dataframe, process_in_batches,
\* process_chunked and process_parallel are non-empty, contiguous, ascending,
\* pairwise disjoint, never reach past the last row, start at row 0 and,
\* once the loop is over, end at row len - 1: they cover rows 0..len-1
\* exactly once.
C3_SlicesPartition ==
    sq_pc \in {"loop", "done"} =>
        /\ \A k \in 1..Len(sq_slices) :
              /\ sq_slices[k][1] < sq_slices[k][2]
              /\ sq_slices[k][2] <= sq_len
              /\ sq_slices[k][1] = (IF k = 1 THEN 0 ELSE sq_slices[k - 1][2])
        /\ sq_pc = "done" =>
              IF sq_len = 0 THEN sq_slices = <<>>
              ELSE /\ sq_slices # <<>>
                   /\ sq_slices[Len(sq_slices)][2] = sq_len
        /\ sq_len <= MaxLen + 1 =>
              \A row \in 0..(sq_len - 1) :
                  Cardinality({k \in 1..Len(sq_slices) :
                      sq_slices[k][1] <= row /\ row < sq_slices[k][2]})
                  = (IF sq_pc = "done" \/ row < sq_start THEN 1 ELSE 0)

\* C3 witness: a finished run that cut three or more slices, the last one a
\* shorter remainder.
C3_Witness ==
    /\ sq_pc = "done"
    /\ Len(sq_slices) >= 3
    /\ SliceLen(sq_slices[Len(sq_slices)]) < SliceLen(sq_slices[1])

\* C4: split_dataframe cuts chunks of length ceil(len / n), only the last
\* one possibly shorter, and 10,000 rows with n = 4 give 4 chunks of 2500.
C4_ChunkLengthIsCeil ==
    (sq_op = "split_dataframe" /\ sq_pc = "done") =>
        /\ \A k \in 1..Len(sq_slices) :
              IF k < Len(sq_slices)
              THEN SliceLen(sq_slices[k]) = CeilDiv(sq_len, sq_n)
              ELSE SliceLen(sq_slices[k]) <= CeilDiv(sq_len, sq_n)
        /\ (sq_len = 10000 /\ sq_n = 4) =>
              /\ Len(sq_slices) = 4
              /\ \A k \in 1..4 : SliceLen(sq_slices[k]) = 2500

-----------------------------------------------------------------------------
(* Claims about dispatch. *)

\* what unit i (position k = i + 1) did, as the caller is to see it: the
\* value it returned, or None when it raised
Outcome(k) ==
    IF d_state[k] = "returned" THEN Result(d_units[k]) ELSE None

ErrorRecords(i) ==
    {j \in 1..Len(d_log) : d_log[j].level = "error" /\ d_log[j].unit = i}

\* C1: process_parallel and process_tasks return only once every submitted
\* unit has returned or raised, and the returned list has one entry per
\* unit, entry i being the outcome of unit i, whatever the completion order.
C1_OneOutcomePerUnitInOrder ==
    d_pc = "returned" =>
        /\ \A k \in 1..Len(d_units) : Finished(k)
        /\ Len(d_ret) = Len(d_units)
        /\ \A k \in 1..Len(d_units) : d_ret[k] = Outcome(k)

\* C1 witness: a call returned whose units completed out of index order.
C1_Witness ==
    /\ d_pc = "returned"
    /\ Len(d_units) >= 3
    /\ \E j \in 1..(Len(d_results) - 1) : d_results[j][1] > d_results[j + 1][1]

\* C2: when units raise, the call still returns; the slot of a unit that
\* raised holds None, the slot of any other unit the value it returned, and
\* one error record was logged per unit that raised, none for the others.
C2_FailureIsolated ==
    /\ d_pc \in {"idle", "collecting", "returned"}
    /\ d_pc = "returned" =>
          /\ Len(d_ret) = Len(d_units)
          /\ \A k \in 1..Len(d_units) :
                IF d_state[k] = "raised"
                THEN d_ret[k] = None /\ Cardinality(ErrorRecords(k - 1)) = 1
                ELSE /\ d_state[k] = "returned"
                     /\ d_ret[k] = Result(d_units[k])
                     /\ ErrorRecords(k - 1) = {}

\* C2 witness: four units, unit 2 raised, units 0, 1 and 3 returned.
C2_Witness ==
    /\ d_pc = "returned"
    /\ Len(d_units) = 4
    /\ d_state = <<"returned", "returned", "raised", "returned">>
    /\ d_ret[3] = None

-----------------------------------------------------------------------------
(* Claims about retry. *)

\* the wrapped function raises a listed exception on its first k calls and
\* returns on call k + 1
FailsThenReturns(k) ==
    /\ k + 1 <= Len(r_script)
    /\ \A n \in 1..k : r_script[n] # "ok" /\ Retryable(r_cfg, r_script[n])
    /\ r_script[k + 1] = "ok"

\* the wrapped function raises a listed exception on each of its first
\* max_attempts calls
AlwaysFails ==
    \A n \in 1..Len(r_script) :
        r_script[n] # "ok" /\ Retryable(r_cfg, r_script[n])

\* C5: a function failing k >= 1 times with a listed exception and then
\* returning v, under max_attempts >= k + 1: execute_with_retry invokes it
\* at most k + 1 times and ends by returning v after exactly k + 1
\* invocations, with successful_with_retry one higher and
\* successful_first_try and failed as they were.
C5_SucceedsAfterRetry ==
    \A k \in 1..(MaxAttempts + 1) :
        (r_kind = "manager" /\ r_pc # "idle" /\ FailsThenReturns(k)) =>
            /\ r_calls <= k + 1
            /\ r_pc # "raised"
            /\ r_pc = "running" => r_calls <= k
            /\ r_pc = "returned" =>
                  /\ r_calls = k + 1
                  /\ r_out = ReturnValue(k + 1)
                  /\ r_stats.successful_with_retry
                       = r_before.successful_with_retry + 1
                  /\ r_stats.successful_first_try = r_before.successful_first_try
                  /\ r_stats.failed = r_before.failed

\* C5 witness: the function failed twice and the third attempt returned.
C5_Witness ==
    /\ r_kind = "manager"
    /\ r_pc = "returned"
    /\ FailsThenReturns(2)
    /\ r_calls = 3

\* C6: a function failing with a listed exception on every one of its first
\* max_attempts calls: execute_with_retry and the retry_operation wrapper
\* invoke it exactly max_attempts times and raise the exception of the last
\* attempt itself; RetryManager counts one more failed and no success.
C6_ExhaustionReraises ==
    (r_pc # "idle" /\ AlwaysFails) =>
        /\ r_calls <= r_cfg.max_attempts
        /\ r_pc # "returned"
        /\ r_pc = "running" => r_calls < r_cfg.max_attempts
        /\ r_pc = "raised" =>
              /\ r_calls = r_cfg.max_attempts
              /\ r_out = Exc(r_script[r_cfg.max_attempts], r_cfg.max_attempts)
              /\ r_kind = "manager" =>
                    /\ r_stats.failed = r_before.failed + 1
                    /\ r_stats.successful_first_try
                         = r_before.successful_first_try
                    /\ r_stats.successful_with_retry
                         = r_before.successful_with_retry
              /\ r_kind = "decorator" => r_stats = r_before

\* C6 witness: three attempts, all failed, the call raised.
C6_Witness ==
    /\ r_pc = "raised"
    /\ AlwaysFails
    /\ r_cfg.max_attempts = 3
    /\ r_calls = 3

-----------------------------------------------------------------------------
(* Claims about the checkpoint store. *)

\* the metadata field a load gives back equals the supplied metadata, as
\* JSON values (no metadata is the empty dict, a tuple is an array)
SameMetadata(loaded, supplied) == loaded = JsonDict(MetaOrEmpty(supplied))

\* C7: load_checkpoint of an id that create_checkpoint returned, with no
\* delete of that id in between, returns the state that create was given,
\* equal by value, and a metadata record with the supplied pipeline_name,
\* step and metadata and with that id as checkpoint_id.
C7_LoadReturnsWhatCreateWasGiven ==
    c_loaded.called =>
        \A h \in c_loaded.live :
            /\ c_loaded.out.raised = "no"
            /\ c_loaded.out.data = h.args.data
            /\ c_loaded.out.metadata.checkpoint_id = h.id
            /\ c_loaded.out.metadata.pipeline_name = h.args.pipeline_name
            /\ c_loaded.out.metadata.step = h.args.step
            /\ SameMetadata(c_loaded.out.metadata.metadata, h.args.metadata)

\* C8: two create_checkpoint calls never return the same id, also when they
\* read the same clock value.
C8_IdsUnique ==
    \A h1, h2 \in c_live : h1.call # h2.call => h1.id # h2.id

\* C9: at every point, also inside create_checkpoint and after a crash
\* between its two writes, every checkpoint that list_checkpoints (and so
\* get_latest_checkpoint and can_recover) exposes has both its metadata
\* record and its state record.
C9_ListedCheckpointsAreComplete ==
    \A id \in ListedIds(NoPipeline) : id \in DOMAIN c_data

\* C10: load_checkpoint raises the not-found error whenever the metadata
\* record or the state record of the id is absent, and gives back nothing
\* then; a result is only ever built from both records.
C10_LoadRaisesOnMissingHalf ==
    c_loaded.called =>
        /\ (~c_loaded.meta_present \/ ~c_loaded.data_present) =>
              /\ c_loaded.out.raised = "FileNotFoundError"
              /\ c_loaded.out.metadata = <<>>
              /\ c_loaded.out.data = <<>>
        /\ c_loaded.out.raised = "no" =>
              /\ c_loaded.meta_present
              /\ c_loaded.data_present
              /\ c_loaded.out.metadata = JsonLoad(c_meta[c_loaded.id])
              /\ c_loaded.out.data = PickleLoad(c_data[c_loaded.id])

\* C10 witness: a load of an id whose metadata record is there and whose
\* state record is not; it raised.
C10_Witness ==
    /\ c_loaded.called
    /\ c_loaded.meta_present
    /\ ~c_loaded.data_present
    /\ c_loaded.out.raised = "FileNotFoundError"

-----------------------------------------------------------------------------
(* Claims about retention and recovery. *)

\* the checkpoints of a pipeline in a directory: both records present
CompleteIds(meta, data, pipeline_name) ==
    {id \in DOMAIN meta \cap DOMAIN data :
        JsonLoad(meta[id]).pipeline_name = pipeline_name}
\* the ids with a record that belongs to another pipeline
OtherIds(meta, pipeline_name) ==
    {id \in DOMAIN meta : JsonLoad(meta[id]).pipeline_name # pipeline_name}

\* C11: cleanup_old_checkpoints(pipeline, keep_last) leaves exactly
\* min(keep_last, existing_count) checkpoints of the pipeline, those with the
\* greatest timestamps, removes both records of every other checkpoint of
\* the pipeline and touches no checkpoint of another pipeline.
C11_CleanupKeepsNewest ==
    c_op.op = "cleanup" =>
        LET before == CompleteIds(c_op.meta_before, c_op.data_before,
                                  c_op.pipeline_name)
            after == CompleteIds(c_meta, c_data, c_op.pipeline_name)
        IN  /\ Cardinality(after) = Min(c_op.keep_last, Cardinality(before))
            /\ after \subseteq before
            /\ \A k \in after, r \in before \ after :
                  Timestamp(c_op.meta_before, k)
                      >= Timestamp(c_op.meta_before, r)
            /\ \A r \in before \ after :
                  r \notin DOMAIN c_meta \cup DOMAIN c_data
            /\ \A id \in OtherIds(c_op.meta_before, c_op.pipeline_name) :
                  /\ id \in DOMAIN c_meta
                  /\ c_meta[id] = c_op.meta_before[id]
                  /\ id \in DOMAIN c_op.data_before =>
                        /\ id \in DOMAIN c_data
                        /\ c_data[id] = c_op.data_before[id]

\* the complete checkpoints of a pipeline with the greatest timestamp
LatestIds(pipeline_name) ==
    LET ids == CompleteIds(c_meta, c_data, pipeline_name)
    IN  {id \in ids :
            \A other \in ids :
                Timestamp(c_meta, id) >= Timestamp(c_meta, other)}

\* C20: resume_from_step(pipeline, remaining_steps), when a checkpoint of
\* the pipeline exists, applies the steps in list order, each once, the first
\* to the state of the latest checkpoint and each next one to the previous
\* result, and returns the last result; when no checkpoint exists it raises
\* without running a step and without creating a checkpoint.
C20_ResumeRunsRemainingSteps ==
    c_op.op = "resume" =>
        /\ c_meta = c_op.meta_before
        /\ c_data = c_op.data_before
        /\ IF CompleteIds(c_meta, c_data, c_op.pipeline_name) = {}
           THEN /\ c_op.out.raised \notin {"no", "none"}
                /\ c_op.ran = <<>>
           ELSE /\ c_op.out.raised = "no"
                /\ Len(c_op.ran) = Len(c_op.steps)
                /\ \A i \in 1..Len(c_op.ran) :
                      /\ c_op.ran[i].step = c_op.steps[i]
                      /\ c_op.ran[i].output
                            = ApplyStep(c_op.steps[i], c_op.ran[i].input)
                      /\ i > 1 => c_op.ran[i].input = c_op.ran[i - 1].output
                /\ \E id \in LatestIds(c_op.pipeline_name) :
                      LET state == PickleLoad(c_data[id])
                      IN  IF c_op.steps = <<>>
                          THEN c_op.out.data = state
                          ELSE /\ c_op.ran[1].input = state
                               /\ c_op.out.data
                                     = c_op.ran[Len(c_op.ran)].output

-----------------------------------------------------------------------------
(* Claims about the adaptive batch sizer. *)

\* a constructed sizer whose limits are in order
ValidLimits ==
    /\ a_pc = "constructed"
    /\ a_cfg.min_batch_size <= a_cfg.max_batch_size
InLimits(batch_size) ==
    /\ a_cfg.min_batch_size <= batch_size
    /\ batch_size <= a_cfg.max_batch_size
\* this step is an _adjust_batch_size call
Adjusted == a_times' = a_times + 1

\* C12: batch_size lies in [min_batch_size, max_batch_size] right after
\* construction and after any _adjust_batch_size calls, for every
\* configuration with min_batch_size <= max_batch_size.
C12_SizeWithinLimits == ValidLimits => InLimits(a_batch_size)

\* C13: from a batch_size within the limits, with min_batch_size >= 1, every
\* call of a run of fast durations strictly increases batch_size while it is
\* below max_batch_size, and never takes it past max_batch_size.
C13_FastRunGrows ==
    [][(/\ Adjusted
        /\ a_run = "fast"
        /\ ValidLimits
        /\ a_cfg.min_batch_size >= 1
        /\ InLimits(a_batch_size))
       => /\ a_batch_size < a_cfg.max_batch_size
                => a_batch_size' > a_batch_size
          /\ a_batch_size' <= a_cfg.max_batch_size]_vars

\* C14: from a batch_size within the limits, every call of a run of slow
\* durations strictly decreases batch_size while it is above min_batch_size
\* and never takes it below min_batch_size, and the run reaches
\* min_batch_size.
C14_SlowRunShrinksToMin ==
    /\ [][(/\ Adjusted
           /\ a_run = "slow"
           /\ ValidLimits
           /\ InLimits(a_batch_size))
          => /\ a_batch_size > a_cfg.min_batch_size
                   => a_batch_size' < a_batch_size
             /\ a_batch_size' >= a_cfg.min_batch_size]_vars
    /\ (a_run = "slow" /\ ValidLimits /\ InLimits(a_batch_size))
          ~> (a_batch_size = a_cfg.min_batch_size)

\* C14 witness: the default sizer, 1000 rows at first, has come down to its
\* minimum of 100 in a slow run.
C14_Witness ==
    /\ a_run = "slow"
    /\ a_cfg = DefaultSizerConfig
    /\ a_times >= 11
    /\ a_prev > a_batch_size
    /\ a_batch_size = a_cfg.min_batch_size

\* C15: _adjust_batch_size(d) sets batch_size to
\* max(floor(batch_size * 0.8), min_batch_size) when d > target_time * 1.2,
\* to min(floor(batch_size * 1.2), max_batch_size) when d < target_time * 0.8,
\* and leaves it unchanged on and between the two band edges.
C15_AdjustRule ==
    (a_pc = "constructed" /\ a_times >= 1) =>
        /\ 10 * a_last > 12 * a_cfg.target_time =>
              a_batch_size = Max((8 * a_prev) \div 10, a_cfg.min_batch_size)
        /\ 10 * a_last < 8 * a_cfg.target_time =>
              a_batch_size = Min((12 * a_prev) \div 10, a_cfg.max_batch_size)
        /\ (/\ 8 * a_cfg.target_time <= 10 * a_last
            /\ 10 * a_last <= 12 * a_cfg.target_time) =>
              a_batch_size = a_prev

\* C15 witness: from 1000 with target 1.0 the third call, with duration 0.5
\* after two slow ones, takes the size from 640 to 768.
C15_Witness ==
    /\ a_cfg = DefaultSizerConfig
    /\ a_times = 3
    /\ a_last = 50
    /\ a_prev = 640
    /\ a_batch_size = 768

\* C18: no AdaptiveBatchProcessor with min_batch_size > max_batch_size is
\* ever constructed; __init__ raises instead.
C18_InvalidLimitsRejected ==
    a_pc = "constructed" => a_cfg.min_batch_size <= a_cfg.max_batch_size

-----------------------------------------------------------------------------
(* Claims about the waits and the exceptions of a retried call. *)

\* C16: within one call the waits between attempts never decrease and none
\* exceeds max_delay, for every RetryConfig.
C16_WaitsNonDecreasingAndCapped ==
    \A i \in 1..Len(r_sleeps) :
        /\ r_sleeps[i] <= r_cfg.max_delay
        /\ i > 1 => r_sleeps[i - 1] <= r_sleeps[i]

\* the exception classes the configuration does not name
Unlisted(cls) ==
    /\ cls \in ExceptionClasses
    /\ cls \notin r_cfg.exceptions
    /\ "Exception" \notin r_cfg.exceptions

\* C17: an exception outside the configured set leaves the call from the
\* attempt that raised it: that invocation is the last one, no wait follows
\* it, and the caller gets that exception.
C17_UnlistedPropagatesAtOnce ==
    \A n \in 1..r_calls :
        Unlisted(r_script[n]) =>
            /\ n = r_calls
            /\ r_pc = "raised"
            /\ r_out = Exc(r_script[n], n)
            /\ Len(r_sleeps) = n - 1

\* C17 witness: IOError is retried, the second attempt raises ValueError,
\* which is not listed, with a third attempt left.
C17_Witness ==
    /\ r_pc = "raised"
    /\ r_cfg.max_attempts = 3
    /\ r_cfg.exceptions = {"IOError"}
    /\ r_calls = 2
    /\ r_script[1] = "IOError"
    /\ r_script[2] = "ValueError"
    /\ Len(r_sleeps) = 1

-----------------------------------------------------------------------------
(* Claims about the split-then-run dispatcher. *)

\* C19: in process_chunks a chunk whose unit function raises is isolated: no
\* other chunk is cancelled, the exception does not reach the caller, and
\* the call returns with every chunk finished.
C19_ChunkFailureIsolated ==
    d_op = "process_chunks" =>
        /\ \A k \in 1..Len(d_units) : d_state[k] # "cancelled"
        /\ (\E k \in 1..Len(d_units) : d_state[k] = "raised")
              => d_pc \notin {"unwinding", "raised"}
        /\ d_pc = "returned" =>
              /\ \A k \in 1..Len(d_units) : Finished(k)
              /\ Len(d_ret) = Len(d_units)

-----------------------------------------------------------------------------
(* Claims about the memory-bound batch size. *)

\* C23: _estimate_batch_size never raises and returns a size that is at
\* least the minimum (100) and at most the number of rows of the dataset,
\* the minimum for an empty dataset; process_chunked cuts every chunk of
\* the run with that one size.
C23_EstimateWithinLimits ==
    sq_op = "process_chunked" =>
        /\ sq_pc # "raised"
        /\ sq_pc \in {"loop", "done"} =>
              /\ sq_step >= MinBatchRows
              /\ IF sq_len = 0 THEN sq_step = MinBatchRows
                 ELSE sq_step <= sq_len
              /\ \A k \in 1..Len(sq_slices) :
                    /\ sq_slices[k][1] = (k - 1) * sq_step
                    /\ sq_slices[k][2] = Min(k * sq_step, sq_len)

-----------------------------------------------------------------------------
(* Claims about the retry counters. *)

OutcomeSum(stats) ==
    stats.successful_first_try + stats.successful_with_retry + stats.failed

\* C29: whenever no execute_with_retry call is running, total_operations
\* equals successful_first_try + successful_with_retry + failed, and a call
\* that returned or raised has incremented total_operations by exactly 1
\* and exactly one of the three outcome counters by 1.
C29_CountersAddUp ==
    r_pc \in {"idle", "returned", "raised"} =>
        /\ r_stats.total_operations = OutcomeSum(r_stats)
        /\ (r_pc # "idle" /\ r_kind = "manager") =>
              /\ r_stats.total_operations = r_before.total_operations + 1
              /\ OutcomeSum(r_stats) = OutcomeSum(r_before) + 1
              /\ r_stats.successful_first_try >= r_before.successful_first_try
              /\ r_stats.successful_with_retry >= r_before.successful_with_retry
              /\ r_stats.failed >= r_before.failed

-----------------------------------------------------------------------------
(* Claims about deletion and concurrent creation. *)

\* a step leaves the files of every id but `id` as they were
OthersUntouched(id) ==
    /\ DOMAIN c_meta' \ {id} = DOMAIN c_meta \ {id}
    /\ DOMAIN c_data' \ {id} = DOMAIN c_data \ {id}
    /\ \A x \in DOMAIN c_meta \ {id} : c_meta'[x] = c_meta[x]
    /\ \A x \in DOMAIN c_data \ {id} : c_data'[x] = c_data[x]

\* every create_checkpoint call that was started has returned, all of them
\* with the id that was loaded, and none was deleted since
AllCreatesFinishedOn(loaded) ==
    /\ loaded.called
    /\ \A w \in Writers : c_pc[w] = "idle"
    /\ c_creates >= 2
    /\ Cardinality(loaded.live) = c_creates

\* what a load gave back is what one create call was given
LoadedFrom(out, h) ==
    /\ out.raised = "no"
    /\ out.data = h.args.data
    /\ out.metadata.step = h.args.step
    /\ SameMetadata(out.metadata.metadata, h.args.metadata)

\* the load made after concurrent creates of one id returns the metadata
\* and the state of one and the same create call (the state record is what
\* a call writes last, so that call is the one that finished last)
LastWriteWins ==
    AllCreatesFinishedOn(c_loaded) =>
        \E h \in c_loaded.live : LoadedFrom(c_loaded.out, h)

\* C27: the file writes of a create_checkpoint call touch no record of
\* another id, and when uncoordinated calls write the same id, load_checkpoint
\* after all of them finished returns the metadata and the state of one and
\* the same call, under every interleaving of the writes.
C27_ConcurrentCreates ==
    [][/\ \A w \in Writers :
             (CreateWriteMeta(w) \/ CreateWriteData(w))
                 => OthersUntouched(c_id[w])
       /\ LastWriteWins']_vars

\* a checkpoint that has both its records
Complete(id) == id \in DOMAIN c_meta /\ id \in DOMAIN c_data

\* C26: delete_checkpoint(id) removes both records of id, after which
\* load_checkpoint(id) fails and list_checkpoints does not contain id, and
\* leaves the records of every other checkpoint as they were; for an absent
\* id it changes nothing; and no step other than its deletion changes or
\* removes a record of a complete checkpoint.
C26_DeleteToAbsent ==
    [][/\ \A id \in TargetIds :
             Delete(id) =>
                 /\ id \notin DOMAIN c_meta'
                 /\ id \notin DOMAIN c_data'
                 /\ (LoadCheckpoint(id).raised = "FileNotFoundError")'
                 /\ id \notin ListedIds(NoPipeline)'
                 /\ OthersUntouched(id)
                 /\ (id \notin DOMAIN c_meta \cup DOMAIN c_data)
                       => (c_meta' = c_meta /\ c_data' = c_data)
       /\ \A id \in DOMAIN c_meta \cap DOMAIN c_data :
             \/ Delete(id)
             \/ /\ id \in DOMAIN c_meta' /\ c_meta'[id] = c_meta[id]
                /\ id \in DOMAIN c_data' /\ c_data'[id] = c_data[id]]_vars

-----------------------------------------------------------------------------
(* Claims about listing and the latest checkpoint. *)

\* the create calls of a pipeline that returned and were not deleted since
LiveOf(pipeline_name) ==
    {h \in c_live : h.args.pipeline_name = pipeline_name}
\* the one that was made last
CreatedLast(pipeline_name) ==
    {h \in LiveOf(pipeline_name) :
        \A other \in LiveOf(pipeline_name) : h.call >= other.call}

\* C25: get_latest_checkpoint(pipeline) returns None when the pipeline has
\* no checkpoint and otherwise the loaded checkpoint of that pipeline with
\* the greatest timestamp, the one created last; list_checkpoints(pipeline)
\* returns exactly the metadata of the pipeline's checkpoints (of all
\* checkpoints for pipeline None), each once, by timestamp descending;
\* neither returns a checkpoint of another pipeline.
C25_LatestAndListing ==
    /\ c_op.op = "latest" =>
          LET ids == CompleteIds(c_meta, c_data, c_op.pipeline_name)
          IN  IF ids = {} THEN c_op.out = NoResult
              ELSE /\ c_op.out.raised = "no"
                   /\ c_op.out.metadata.pipeline_name = c_op.pipeline_name
                   /\ \E id \in LatestIds(c_op.pipeline_name) :
                         /\ c_op.out.metadata = JsonLoad(c_meta[id])
                         /\ c_op.out.data = PickleLoad(c_data[id])
                   /\ \A h \in CreatedLast(c_op.pipeline_name) :
                         /\ c_op.out.metadata.checkpoint_id = h.id
                         /\ c_op.out.data = h.args.data
    /\ c_op.op = "list" =>
          LET ids == IF c_op.pipeline_name = NoPipeline
                     THEN DOMAIN c_meta \cap DOMAIN c_data
                     ELSE CompleteIds(c_meta, c_data, c_op.pipeline_name)
              l == c_op.listed
          IN  /\ {l[i].checkpoint_id : i \in 1..Len(l)} = ids
              /\ Len(l) = Cardinality(ids)
              /\ \A i \in 1..Len(l) :
                    /\ l[i] = JsonLoad(c_meta[l[i].checkpoint_id])
                    /\ c_op.pipeline_name # NoPipeline =>
                          l[i].pipeline_name = c_op.pipeline_name
              /\ \A i, j \in 1..Len(l) :
                    i < j => l[i].timestamp >= l[j].timestamp

-----------------------------------------------------------------------------
(* Claims about sequential processing and progress reports. *)

\* units of the sequential call whose func has returned
UnitsDone ==
    IF p_pc \in {"unit", "raised"} THEN Len(p_slices) - 1 ELSE Len(p_slices)

\* the invocations made so far are one per completed unit, the k-th one
\* reports k completed units and all report the same total
ProgressAsStated(progress, completed) ==
    /\ Len(progress) = completed
    /\ \A k \in 1..Len(progress) :
          /\ progress[k][1] = k
          /\ progress[k][2] = progress[1][2]

\* the last invocation reports completed = total
LastReportsTotal(progress) ==
    progress # <<>> =>
        progress[Len(progress)][1] = progress[Len(progress)][2]

\* C21: in process_in_batches and process (called with a callback) and in
\* process_parallel, the progress callback is invoked once after every
\* unit, the k-th invocation reports (k, total_units), so the reported count
\* strictly increases, and the last invocation of a finished call reports
\* completed_units = total_units.
C21_ProgressAfterEveryUnit ==
    /\ (p_op \in {"process", "process_in_batches"} /\ p_cb) =>
          /\ ProgressAsStated(p_progress, UnitsDone)
          /\ p_pc = "done" => LastReportsTotal(p_progress)
    /\ d_op = "process_parallel" =>
          /\ ProgressAsStated(p_progress, Cardinality(d_collected))
          /\ d_pc = "returned" => LastReportsTotal(p_progress)

C30_ProcessAdvances ==
    (/\ p_op = "process"
     /\ a_cfg.initial_batch_size >= 1
     /\ 0 <= a_cfg.min_batch_size
     /\ a_cfg.min_batch_size <= a_cfg.max_batch_size) =>
        /\ a_batch_size >= 1
        /\ Len(p_slices) <= p_len
        /\ \A k \in 1..Len(p_slices) : p_slices[k][1] < p_slices[k][2]


-----------------------------------------------------------------------------
(* Claims about wrapped steps. *)

\* the checkpoints in the directory that the directory did not hold when
\* the wrapper was called
NewCheckpoints ==
    (DOMAIN c_meta \cup DOMAIN c_data)
        \ (DOMAIN w_meta_before \cup DOMAIN w_data_before)

\* the directory holds every record it held when the wrapper was called,
\* unchanged
OldCheckpointsKept ==
    /\ \A id \in DOMAIN w_meta_before :
          id \in DOMAIN c_meta /\ c_meta[id] = w_meta_before[id]
    /\ \A id \in DOMAIN w_data_before :
          id \in DOMAIN c_data /\ c_data[id] = w_data_before[id]

\* the checkpoint holds the result of the call and is labelled with its step
HoldsResultOf(id, call) ==
    /\ Complete(id)
    /\ LoadCheckpoint(id).data = StepResult(call)
    /\ LoadCheckpoint(id).metadata.step = call.step_name
    /\ LoadCheckpoint(id).metadata.pipeline_name = KwargsGet(call)

\* C28: a call of a wrapped step that returns has created exactly one
\* checkpoint, holding the step's result and labelled with the step name,
\* written after the step function returned and before the wrapper returns;
\* a call whose step function raises creates no checkpoint and its caller
\* gets the step's exception.
C28_OneCheckpointPerSuccessfulCall ==
    /\ w_pc = "func" => (c_meta = w_meta_before /\ c_data = w_data_before)
    /\ w_pc = "raised" =>
          /\ c_meta = w_meta_before /\ c_data = w_data_before
          /\ w_out = [kind |-> "raise", value |-> StepException(w_call)]
    /\ w_pc = "returned" =>
          /\ w_out = [kind |-> "return", value |-> StepResult(w_call)]
          /\ Cardinality(NewCheckpoints) = 1
          /\ \A id \in NewCheckpoints : HoldsResultOf(id, w_call)
          /\ OldCheckpointsKept

\* what holds of every returned call: a complete checkpoint of the call's
\* pipeline holds its result and step name, and a raise leaves the
\* directory as it was
C28_Part_LastCheckpointHoldsResult ==
    /\ w_pc = "func" => (c_meta = w_meta_before /\ c_data = w_data_before)
    /\ w_pc = "raised" =>
          /\ c_meta = w_meta_before /\ c_data = w_data_before
          /\ w_out = [kind |-> "raise", value |-> StepException(w_call)]
    /\ w_pc = "returned" =>
          /\ w_out = [kind |-> "return", value |-> StepResult(w_call)]
          /\ HoldsResultOf(c_current, w_call)


-----------------------------------------------------------------------------
(* Claims about pipeline runs. *)

\* a stage of the current run raised
StageRaised == \E i \in 1..Len(e_ran) : e_ran[i].outcome = "raise"

\* the stages a run without a failure goes through
AllStages == <<"extract">> \o e_stages \o <<"load">>

\* the stages executed are the first stages of the run in order, and only
\* the last of them may have raised
NoStageAfterRaise ==
    /\ Len(e_ran) <= Len(AllStages) \/ e_pc = "extract"
    /\ \A i \in 1..Len(e_ran) :
          /\ i > 1 => e_ran[i].stage = AllStages[i]
          /\ i = 1 => e_ran[i].stage = "extract"
          /\ i < Len(e_ran) => e_ran[i].outcome = "ok"

====
